---- MODULE Spec2Model ----
(***************************************************************************)
(* Model of validacion_brief: the stage-schedule validation of promotional *)
(* campaigns (services/brief_exec.py) and the summary built from its       *)
(* reports (services/email_report.py).                                     *)
(*                                                                         *)
(* Conventions.  A Python dict is a function whose DOMAIN is its key set;  *)
(* the empty dict is << >>.  A naive datetime is an integer number of      *)
(* milliseconds since midnight of day 0 (the calendar itself is not        *)
(* modelled: a date is a day number); a time of day is a number of         *)
(* milliseconds since midnight.  Python's None is NoDt where a datetime or *)
(* a time is expected and None where a string is expected.                 *)
(*                                                                         *)
(* Text is ASCII: TLC stores the characters of a string as bytes, so the   *)
(* seven accented letters the program knows are written with stand-ins,    *)
(*      a' e' i' o' u' n~ u"  (lower case)  as  ! @ # $ % ^ &              *)
(*      A' E' I' O' U' N~ U"  (upper case)  as  ( ) { } [ ] ~              *)
(* so "Acumulaci$n" is the recorded name Acumulacio'n of the anchor stage. *)
(*                                                                         *)
(* Several specifications share the module.  SpecEtapas walks the recorded *)
(* stages of one segment, an iteration of validate_etapas' loop at a time. *)
(* Spec runs validate_all over the campaigns to validate, a validator call *)
(* at a time, and then build_summary over the reports it left.  SpecCalls  *)
(* calls one of the helper functions on an argument.  SpecSegmentos runs   *)
(* validate_all on campaign 17 with one segment, whose rules and recorded  *)
(* data vary a category at a time.  SpecSegmentLoop walks two segments of  *)
(* a campaign one after the other.  SpecSummary calls send_summary_email   *)
(* on a reports root that holds one directory, with or without legacy      *)
(* files.  SpecMain is cli/brief main: validate_all, then the summary      *)
(* email.  SpecRerun runs validate_all and then runs it again.             *)
(***************************************************************************)
EXTENDS Integers, Sequences, FiniteSets, TLC

VARIABLES
    \* -- validate_etapas, the walk over one segment's recorded stages -----
    promo_id,       \* campaign type of the segment being walked
    cfg,            \* its rule template (PromoConfig)
    stage_rows,     \* rows returned by queryEtapasSeg for the segment
    stage_data,     \* insertion-ordered dict name_norm -> {start, end}
    idx,            \* number of stage_data items the loop has consumed
    walk,           \* the locals of the loop: expected_starts, expected_ends,
                    \* validations, and ref_dt, day_offset, expected_start_dt,
                    \* expected_end_dt of the last processed stage
    all_results,    \* the per-segment entries collected for the report
    remaining,      \* the recorded stage rows of the segments still to walk
    \* -- validate_all and build_summary ------------------------------------
    promos,         \* the argument of validate_all (<< >> for None)
    rule_files,     \* the three rule files under pages/Brief/JsonGenerales
    config,         \* load_ejecucion_config(): campaign type -> template
    store,          \* the recorded data: campaign type -> querySegmentos
    reports,        \* pages/Brief/Validaciones: directory -> file -> document
    run,            \* list_to_validate, the position in it, the calls made
    summary,        \* what build_summary returned: html and rows
    \* -- a call of one of the helper functions -----------------------------
    fn,             \* the function called
    arg,            \* its argument
    ret,            \* what it returned
    \* -- cli/brief main ----------------------------------------------------
    previous,       \* the reports an earlier run of the pipeline left, and
                    \* what the reports root holds when it is run again
    outbox,         \* the emails handed to send_html_email
    pc              \* position of the walk, of the run, or of the call

walkVars == <<promo_id, cfg, stage_rows, stage_data, idx, walk, all_results, remaining>>

runVars == <<promos, rule_files, config, store, reports, run, summary>>

callVars == <<fn, arg, ret>>

mainVars == <<previous, outbox>>

vars == <<walkVars, runVars, callVars, mainVars, pc>>

-----------------------------------------------------------------------------
(* Values *)

None == "<None>"
NoDt == 0 - 1

MsPerSecond == 1000
MsPerDay == 24 * 60 * 60 * MsPerSecond

\* dict.get(k, default)
Get(d, k, default) == IF k \in DOMAIN d THEN d[k] ELSE default

\* a.update(b) on a copy of a
Update(a, b) ==
    [k \in (DOMAIN a) \cup (DOMAIN b) |-> IF k \in DOMAIN b THEN b[k] ELSE a[k]]

\* d[k] = v
Put(d, k, v) == [x \in (DOMAIN d) \cup {k} |-> IF x = k THEN v ELSE d[x]]

Abs(n) == IF n < 0 THEN 0 - n ELSE n

-----------------------------------------------------------------------------
(* Strings *)

Ch(s, i) == SubSeq(s, i, i)

\* position of character c in s, 0 when absent
Pos(c, s) ==
    IF \E i \in 1..Len(s) : Ch(s, i) = c
    THEN CHOOSE i \in 1..Len(s) : Ch(s, i) = c /\ \A j \in 1..(i - 1) : Ch(s, j) # c
    ELSE 0

LowerAccents == "!@#$%^&"
UpperAccents == "(){}[]~"
LowerChars == "abcdefghijklmnopqrstuvwxyz" \o LowerAccents
UpperChars == "ABCDEFGHIJKLMNOPQRSTUVWXYZ" \o UpperAccents
Whitespace == {" ", "\t", "\n"}

\* str.translate with a table mapping from[i] to to[i]
RECURSIVE Translate(_, _, _)
Translate(s, from, to) ==
    IF s = "" THEN ""
    ELSE LET c == Ch(s, 1)
             p == Pos(c, from)
         IN (IF p = 0 THEN c ELSE Ch(to, p)) \o Translate(Tail(s), from, to)

\* str.upper, on the alphabet LowerChars
StrUpper(s) == Translate(s, LowerChars, UpperChars)

\* str.replace(old, new) for a one-character old
ReplaceChar(s, old, new) == Translate(s, old, new)

RECURSIVE LStrip(_)
LStrip(s) == IF s # "" /\ Ch(s, 1) \in Whitespace THEN LStrip(Tail(s)) ELSE s

RECURSIVE RStrip(_)
RStrip(s) ==
    IF s # "" /\ Ch(s, Len(s)) \in Whitespace
    THEN RStrip(SubSeq(s, 1, Len(s) - 1)) ELSE s

\* str.strip
Strip(s) == LStrip(RStrip(s))

HasDoubleSpace(s) == \E i \in 1..(Len(s) - 1) : SubSeq(s, i, i + 1) = "  "

\* one pass of str.replace('  ', ' '): leftmost non-overlapping occurrences
RECURSIVE ReplaceDoubleSpace(_)
ReplaceDoubleSpace(s) ==
    IF Len(s) < 2 THEN s
    ELSE IF SubSeq(s, 1, 2) = "  "
         THEN " " \o ReplaceDoubleSpace(SubSeq(s, 3, Len(s)))
         ELSE Ch(s, 1) \o ReplaceDoubleSpace(Tail(s))

RECURSIVE CollapseSpaces(_)
CollapseSpaces(s) ==
    IF HasDoubleSpace(s) THEN CollapseSpaces(ReplaceDoubleSpace(s)) ELSE s

\* a normalization that keeps the leading and trailing blanks of the name
_normalize_stage_name_unstripped(name) ==
    LET normalized == Translate(StrUpper(name), UpperAccents, "AEIOUNU")
    IN CollapseSpaces(ReplaceChar(normalized, "_", " "))

\* _normalize_stage_name, for a str argument
_normalize_stage_name(name) ==
    LET normalized == Translate(StrUpper(name), UpperAccents, "AEIOUNU")
    IN CollapseSpaces(Strip(ReplaceChar(normalized, "_", " ")))

\* str.split(sep) for a one-character sep
RECURSIVE Split(_, _)
Split(s, sep) ==
    LET p == Pos(sep, s)
    IN IF p = 0 THEN <<s>>
       ELSE <<SubSeq(s, 1, p - 1)>> \o Split(SubSeq(s, p + 1, Len(s)), sep)

Digits == "0123456789"

RECURSIVE DigitsValue(_)
DigitsValue(s) ==
    IF s = "" THEN 0
    ELSE 10 * DigitsValue(SubSeq(s, 1, Len(s) - 1)) + (Pos(Ch(s, Len(s)), Digits) - 1)

\* a string without its characters c
RECURSIVE Without(_, _)
Without(s, c) ==
    IF s = "" THEN ""
    ELSE (IF Ch(s, 1) = c THEN "" ELSE Ch(s, 1)) \o Without(Tail(s), c)

\* int(str): surrounding whitespace, an optional sign, decimal digits with
\* single underscores between them; ok = FALSE stands for ValueError
ParseInt(str) ==
    LET t == Strip(str)
        signed == t # "" /\ Ch(t, 1) \in {"+", "-"}
        body == IF signed THEN Tail(t) ELSE t
        ok == /\ body # ""
              /\ \A i \in 1..Len(body) : Pos(Ch(body, i), Digits \o "_") # 0
              /\ Ch(body, 1) # "_" /\ Ch(body, Len(body)) # "_"
              /\ \A i \in 1..(Len(body) - 1) : SubSeq(body, i, i + 1) # "__"
    IN [ok |-> ok,
        v |-> IF ~ok THEN 0
              ELSE IF signed /\ Ch(t, 1) = "-" THEN 0 - DigitsValue(Without(body, "_"))
              ELSE DigitsValue(Without(body, "_"))]

\* a position range that leaves its last position out of the count
parse_range_position_exclusive(pos) ==
    LET p == Pos("-", pos)
        start == ParseInt(SubSeq(pos, 1, p - 1))
        end == ParseInt(SubSeq(pos, p + 1, Len(pos)))
        val == ParseInt(pos)
    IN IF p # 0 /\ start.ok /\ end.ok THEN <<start.v, end.v, end.v - start.v>>
       ELSE IF val.ok THEN <<val.v, 0, 1>>
       ELSE <<0, 0, 1>>

\* parse_range_position: (cond_min, cond_max, ganadores) of "p" or "a-b";
\* pos.split('-', 1) cuts at the first hyphen, a ValueError of int() leads to
\* the fallback int(pos), and a second one to (0, 0, 1)
parse_range_position(pos) ==
    LET p == Pos("-", pos)
        start == ParseInt(SubSeq(pos, 1, p - 1))
        end == ParseInt(SubSeq(pos, p + 1, Len(pos)))
        val == ParseInt(pos)
    IN IF p # 0 /\ start.ok /\ end.ok THEN <<start.v, end.v, end.v - start.v + 1>>
       ELSE IF val.ok THEN <<val.v, 0, 1>>
       ELSE <<0, 0, 1>>

\* zero-padded two-digit field of strftime
Pad2(n) == IF n < 10 THEN "0" \o ToString(n) ELSE ToString(n)

-----------------------------------------------------------------------------
(* validate_etapas: helpers of the walk *)

ToleranceSeconds == 1

\* datetime.date() and datetime.combine(date, time)
DateOf(dt) == dt \div MsPerDay
Combine(date, t) == date * MsPerDay + t

\* fmt: strftime('%Y-%m-%d %H:%M:%S'); the fraction of a second is dropped
fmt(dt) ==
    LET secs == (dt % MsPerDay) \div MsPerSecond
    IN "D" \o ToString(DateOf(dt)) \o " " \o Pad2(secs \div 3600) \o ":"
           \o Pad2((secs % 3600) \div 60) \o ":" \o Pad2(secs % 60)

\* parse_time_str: 'HH:MM' or 'HH:MM:SS' to a time of day, NoDt on failure
parse_time_str(value) ==
    IF value = None \/ value = "" THEN NoDt
    ELSE LET parts == Split(value, ":")
             h == ParseInt(parts[1])
             m == ParseInt(parts[2])
             s == IF Len(parts) = 3 THEN ParseInt(parts[3]) ELSE [ok |-> TRUE, v |-> 0]
         IN IF Len(parts) \notin {2, 3} THEN NoDt
            ELSE IF h.ok /\ m.ok /\ s.ok
                    /\ h.v \in 0..23 /\ m.v \in 0..59 /\ s.v \in 0..59
                 THEN (h.v * 3600 + m.v * 60 + s.v) * MsPerSecond
                 ELSE NoDt

\* an expectation counted in elapsed time from the reference instant
build_dt_elapsed(reference, time_str, days_offset) ==
    LET t == parse_time_str(time_str)
    IN IF t = NoDt THEN NoDt
       ELSE reference + days_offset * MsPerDay + t

\* build_dt: the reference's calendar date moved by days_offset, at time_str
build_dt(reference, time_str, days_offset) ==
    LET t == parse_time_str(time_str)
    IN IF t = NoDt THEN NoDt
       ELSE Combine(DateOf(reference) + days_offset, t)

\* stage_key_map: normalized stage name -> key of durations/hours
stage_key_map(promo) ==
    LET common ==
            ("PLANIFICADO" :> "planificacion") @@ ("PLANIFICACION" :> "planificacion")
         @@ ("PRE EJECUCION" :> "preEjecucion") @@ ("PRE_EJECUCION" :> "preEjecucion")
         @@ ("ACUMULACION" :> "acumulacion") @@ ("ACUMULACI}N" :> "acumulacion")
    IN IF promo = "17" THEN
            common
         @@ ("VALIDACION" :> "validacion") @@ ("RECALCULO" :> "recalculo")
         @@ ("RESULTADO" :> "resultado") @@ ("RESULTADO IVIEW" :> "resultadoIview")
         @@ ("RESULTADO_IVIEW" :> "resultadoIview") @@ ("PAGOS FISICO" :> "pago")
         @@ ("PAGOS FISICO VENCIDOS" :> "vencido") @@ ("FINALIZADO" :> "finalizado")
       ELSE IF promo \in {"18", "19"} THEN
            common
         @@ ("RECALCULO" :> "recalculo") @@ ("CANJES" :> "canjes")
         @@ ("CANJE" :> "canjes") @@ ("CANJE1" :> "canje1") @@ ("CANJE 1" :> "canje1")
         @@ ("CANJE2" :> "canje2") @@ ("CANJE 2" :> "canje2")
         @@ ("VALIDACION" :> "validacion") @@ ("RESULTADO" :> "resultado")
         @@ ("FINALIZADO" :> "finalizado")
       ELSE IF promo = "22" THEN
            common
         @@ ("SORTEO1" :> "sorteo1") @@ ("SORTEO 1" :> "sorteo1")
         @@ ("SORTEO2" :> "sorteo2") @@ ("SORTEO 2" :> "sorteo2")
         @@ ("CANJE1" :> "canje1") @@ ("CANJE 1" :> "canje1")
         @@ ("CANJE2" :> "canje2") @@ ("CANJE 2" :> "canje2")
         @@ ("CANJES" :> "canje") @@ ("RECALCULO" :> "recalculo")
         @@ ("VALIDACION" :> "validacion") @@ ("RESULTADO" :> "resultado")
         @@ ("FINALIZADO" :> "finalizado")
       ELSE << >>

\* durations: the per-stage duration table the walk reads from the template
DurationsOf(promo, c) ==
    IF promo \in {"17", "22"} THEN Get(c, "durations", << >>)
    ELSE IF promo \in {"18", "19"}
         THEN Update(Get(c, "durations_common", << >>), Get(c, "durations_mode", << >>))
         ELSE << >>

\* hours_cfg: the per-stage clock windows the walk reads from the template
HoursOf(promo, c) ==
    IF promo \in {"17", "22"} THEN Get(c, "hours", << >>)
    ELSE IF promo \in {"18", "19"} THEN Get(c, "hours_common", << >>)
         ELSE << >>

\* `a or b` on optional datetimes (a datetime is always truthy)
OrDt(a, b) == IF a # NoDt THEN a ELSE b

\* ref_dt and day_offset of a stage: the per-family reference table
RefDayOffset(promo, config_key, durations, acum_start_dt, acum_end_dt, exp_starts, exp_ends) ==
    LET dur(k) == Get(durations, k, 0)
        R(r, o) == [ref_dt |-> r, day_offset |-> o]
        plan == R(acum_start_dt,
                  IF config_key = "planificacion" THEN 0 - dur("planificacion") ELSE 0)
    IN IF promo = "17" THEN
            IF config_key \in {"planificacion", "preEjecucion"} THEN plan
            ELSE IF config_key = "acumulacion" THEN R(acum_start_dt, 0)
            ELSE IF config_key \in {"validacion", "recalculo"}
                 THEN R(acum_end_dt, dur(config_key))
            ELSE IF config_key = "resultado"
                 THEN R(OrDt(Get(exp_ends, "RECALCULO", NoDt), acum_end_dt), 0)
            ELSE IF config_key = "resultadoIview" THEN R(acum_end_dt, 0)
            ELSE IF config_key = "pago" THEN R(acum_end_dt, 0)
            ELSE IF config_key = "vencido" THEN R(acum_end_dt, 1)
            ELSE IF config_key = "finalizado"
                 THEN R(OrDt(Get(exp_ends, "RESULTADO", NoDt), acum_end_dt), 0)
            ELSE R(NoDt, 0)
       ELSE IF promo \in {"18", "19"} THEN
            IF config_key \in {"planificacion", "preEjecucion"} THEN plan
            ELSE IF config_key = "acumulacion" THEN R(acum_start_dt, 0)
            ELSE IF config_key = "recalculo" THEN R(acum_end_dt, dur("recalculo"))
            ELSE IF config_key = "canjes" THEN R(acum_end_dt, 0)
            ELSE IF config_key = "validacion"
                 THEN R(OrDt(OrDt(Get(exp_ends, "CANJES", NoDt),
                                  Get(exp_ends, "CANJE", NoDt)), acum_end_dt),
                        dur("validacion"))
            ELSE IF config_key = "resultado"
                 THEN R(OrDt(Get(exp_starts, "VALIDACION", NoDt), acum_end_dt),
                        dur("resultado"))
            ELSE IF config_key = "finalizado"
                 THEN R(OrDt(Get(exp_starts, "RESULTADO", NoDt), acum_end_dt),
                        dur("finalizado"))
            ELSE R(NoDt, 0)
       ELSE IF promo = "22" THEN
            IF config_key \in {"planificacion", "preEjecucion"} THEN plan
            ELSE IF config_key = "acumulacion" THEN R(acum_start_dt, 0)
            ELSE IF config_key \in {"sorteo1", "sorteo2"} THEN R(acum_end_dt, 1)
            ELSE IF config_key \in {"canje1", "canje"} THEN R(acum_end_dt, dur("canje1"))
            ELSE IF config_key = "canje2"
                 THEN R(OrDt(OrDt(OrDt(Get(exp_ends, "CANJE1", NoDt),
                                       Get(exp_ends, "CANJE 1", NoDt)),
                                  Get(exp_ends, "CANJE", NoDt)), acum_end_dt),
                        dur("canje2"))
            ELSE IF config_key = "recalculo" THEN R(acum_end_dt, dur("recalculo"))
            ELSE IF config_key = "validacion"
                 THEN R(OrDt(OrDt(OrDt(Get(exp_ends, "CANJE2", NoDt),
                                       Get(exp_ends, "CANJE 2", NoDt)),
                                  Get(exp_ends, "CANJE", NoDt)), acum_end_dt),
                        dur("validacion"))
            ELSE IF config_key = "resultado"
                 THEN R(OrDt(Get(exp_starts, "VALIDACION", NoDt), acum_end_dt),
                        dur("resultado"))
            ELSE IF config_key = "finalizado"
                 THEN R(OrDt(Get(exp_starts, "RESULTADO", NoDt), acum_end_dt),
                        dur("finalizado"))
            ELSE R(NoDt, 0)
       ELSE R(NoDt, 0)

\* end_offset: the days added to day_offset for the expected end
EndOffset(promo, config_key, durations) ==
    IF promo = "17" /\ config_key \in {"resultadoIview", "pago"} THEN 1
    ELSE Get(durations, config_key, 0)

RuleInicio == "Inicio seg%n reglas de configuraci$n"
RuleFin == "Fin seg%n reglas de configuraci$n"
RuleSorteos == "Duraci$n igual a la suma de los SORTEOS"

\* a comparison that rejects a difference of exactly the tolerance
TimingStatus_strict(diff) ==
    IF diff < ToleranceSeconds * MsPerSecond THEN "OK" ELSE "ERROR"

\* estado of a timing verdict whose halves differ by diff milliseconds
TimingStatus(diff) ==
    IF diff <= ToleranceSeconds * MsPerSecond THEN "OK" ELSE "ERROR"

\* add_validation: the verdict appended for one half of a stage
add_validation(vals, stage_name, rule, expected_dt, actual_dt) ==
    IF expected_dt = NoDt \/ actual_dt = NoDt
    THEN Append(vals, [etapa |-> stage_name, regla |-> rule,
                       valor_esperado |-> "N/D", valor_encontrado |-> "N/D",
                       estado |-> "SKIPPED"])
    ELSE LET diff == Abs(actual_dt - expected_dt)
         IN Append(vals, [etapa |-> stage_name, regla |-> rule,
                          valor_esperado |-> fmt(expected_dt),
                          valor_encontrado |-> fmt(actual_dt),
                          estado |-> TimingStatus(diff)])

\* the entry kept in expected_starts / expected_ends for a processed stage
RecordExpectation(expected_dt, recorded_dt) ==
    IF expected_dt # NoDt THEN expected_dt ELSE recorded_dt

\* a comparison that reports every half, with or without an expectation
CompareHalf_always(vals, stage_name, rule, expected_dt, actual_dt) ==
    add_validation(vals, stage_name, rule, expected_dt, actual_dt)

\* the comparison of one half: a verdict only where an expectation exists
CompareHalf(vals, stage_name, rule, expected_dt, actual_dt) ==
    IF expected_dt # NoDt
    THEN add_validation(vals, stage_name, rule, expected_dt, actual_dt)
    ELSE vals

\* _parse_datetime on what the driver returns: a datetime, or None for NULL
_parse_datetime(value) == value

\* stage_data[name] = {start, end}: a new key goes last, a known key keeps its place
StagePut(sd, name, start, end) ==
    IF \E i \in 1..Len(sd) : sd[i].name = name
    THEN [i \in 1..Len(sd) |->
            IF sd[i].name = name THEN [name |-> name, start |-> start, end |-> end]
            ELSE sd[i]]
    ELSE Append(sd, [name |-> name, start |-> start, end |-> end])

\* stage_data.get(name): the item, or << >> for None
StageGet(sd, name) ==
    IF \E i \in 1..Len(sd) : sd[i].name = name
    THEN <<sd[CHOOSE i \in 1..Len(sd) : sd[i].name = name]>>
    ELSE << >>

\* the loop that builds stage_data from the rows of the segment
RECURSIVE BuildStageData(_, _)
BuildStageData(rows, sd) ==
    IF rows = << >> THEN sd
    ELSE LET row == Head(rows)
             raw_name == IF row.nombre_etapa = None THEN "" ELSE row.nombre_etapa
             name_norm == _normalize_stage_name(raw_name)
             start_dt == _parse_datetime(row.fecha_inicio)
             end_dt == _parse_datetime(row.fecha_fin)
         IN IF start_dt = NoDt \/ end_dt = NoDt
            THEN BuildStageData(Tail(rows), sd)
            ELSE BuildStageData(Tail(rows), StagePut(sd, name_norm, start_dt, end_dt))

\* an anchor lookup that falls back on the first recorded stage
FindAcum_first(sd) ==
    IF StageGet(sd, "ACUMULACION") # << >> THEN StageGet(sd, "ACUMULACION")
    ELSE IF sd # << >> THEN <<sd[1]>> ELSE << >>

\* acum: the anchor stage of the segment, << >> when it has none
FindAcum(sd) ==
    IF StageGet(sd, "ACUMULACION") # << >> THEN StageGet(sd, "ACUMULACION")
    ELSE StageGet(sd, "ACUMULACI}N")

\* the locals of the walk before its first iteration
WalkStart ==
    [expected_starts |-> << >>, expected_ends |-> << >>, validations |-> << >>,
     ref_dt |-> NoDt, day_offset |-> 0,
     expected_start_dt |-> NoDt, expected_end_dt |-> NoDt]

\* an expected start that takes midnight where the window declares no start
ExpectedStart_midnight(r, start_time_str) ==
    IF r.ref_dt # NoDt /\ start_time_str # ""
    THEN build_dt(r.ref_dt, IF start_time_str = None THEN "00:00" ELSE start_time_str,
                  r.day_offset)
    ELSE NoDt

\* expected_start_dt: only with a reference and a start clock time
ExpectedStart(r, start_time_str) ==
    IF r.ref_dt # NoDt /\ start_time_str # None /\ start_time_str # ""
    THEN build_dt(r.ref_dt, start_time_str, r.day_offset)
    ELSE NoDt

\* expected_end_dt: only with a reference and an end clock time
ExpectedEnd(r, end_time_str, end_offset) ==
    IF r.ref_dt # NoDt /\ end_time_str # None
    THEN build_dt(r.ref_dt, end_time_str, r.day_offset + end_offset)
    ELSE NoDt

\* the end of an iteration: record the expectations, compare both halves
StageRecord(w, item, r, exp_start, exp_end) ==
    [expected_starts |->
        Put(w.expected_starts, item.name, RecordExpectation(exp_start, item.start)),
     expected_ends |->
        Put(w.expected_ends, item.name, RecordExpectation(exp_end, item.end)),
     validations |->
        CompareHalf(CompareHalf(w.validations, item.name, RuleInicio, exp_start, item.start),
                    item.name, RuleFin, exp_end, item.end),
     ref_dt |-> r.ref_dt, day_offset |-> r.day_offset,
     expected_start_dt |-> exp_start, expected_end_dt |-> exp_end]

\* an iteration for a stage that maps to config_key
StageExpect(promo, durations, hour_def, acum, w, item, config_key, r) ==
    StageRecord(w, item, r,
                ExpectedStart(r, Get(hour_def, "start", None)),
                ExpectedEnd(r, Get(hour_def, "end", None),
                            EndOffset(promo, config_key, durations)))

StageOfKey(promo, durations, hours_cfg, acum, w, item, config_key) ==
    IF config_key = None THEN w
    ELSE StageExpect(promo, durations, Get(hours_cfg, config_key, << >>), acum, w, item,
                     config_key,
                     RefDayOffset(promo, config_key, durations, acum.start, acum.end,
                                  w.expected_starts, w.expected_ends))

\* one iteration of `for norm_name, times in stage_data.items()`
StageStep(promo, c, acum, w, item) ==
    StageOfKey(promo, DurationsOf(promo, c), HoursOf(promo, c), acum, w, item,
               Get(stage_key_map(promo), item.name, None))

\* repr of a float number of seconds, as an f-string prints total_seconds()
FmtSeconds(ms) ==
    LET a == Abs(ms)
        frac == a % MsPerSecond
        d3 == Pad2(frac \div 10) \o ToString(frac % 10)
        fracStr == IF frac = 0 THEN "0"
                   ELSE IF frac % 100 = 0 THEN SubSeq(d3, 1, 1)
                   ELSE IF frac % 10 = 0 THEN SubSeq(d3, 1, 2)
                   ELSE d3
    IN (IF ms < 0 THEN "-" ELSE "") \o ToString(a \div MsPerSecond) \o "." \o fracStr

SorteoNames == <<"SORTEO1", "SORTEO 1", "SORTEO2", "SORTEO 2">>

\* total_sorteo_seconds (in milliseconds): the recorded durations of the draws
RECURSIVE TotalSorteo(_, _)
TotalSorteo(sd, i) ==
    IF i > Len(SorteoNames) THEN 0
    ELSE LET got == StageGet(sd, _normalize_stage_name(SorteoNames[i]))
         IN (IF got # << >> THEN got[1].end - got[1].start ELSE 0) + TotalSorteo(sd, i + 1)

\* a duration rule applied to the segments of every campaign type
CrossRule_anyFamily(promo, sd, vals) ==
    LET total == TotalSorteo(sd, 1)
        val_stage == StageGet(sd, "VALIDACION")
    IN IF val_stage # << >> /\ total > 0
       THEN LET val_ms == val_stage[1].end - val_stage[1].start
            IN Append(vals, [etapa |-> "VALIDACION", regla |-> RuleSorteos,
                             valor_esperado |-> FmtSeconds(total) \o " segundos",
                             valor_encontrado |-> FmtSeconds(val_ms) \o " segundos",
                             estado |-> IF Abs(val_ms - total) <= ToleranceSeconds * MsPerSecond
                                        THEN "OK" ELSE "ERROR"])
       ELSE vals

\* the additional validation of Salta y Gana, after the loop
CrossRule(promo, sd, vals) ==
    LET total == TotalSorteo(sd, 1)
        val_stage == StageGet(sd, "VALIDACION")
    IN IF promo = "22" /\ val_stage # << >> /\ total > 0
       THEN LET val_ms == val_stage[1].end - val_stage[1].start
            IN Append(vals, [etapa |-> "VALIDACION", regla |-> RuleSorteos,
                             valor_esperado |-> FmtSeconds(total) \o " segundos",
                             valor_encontrado |-> FmtSeconds(val_ms) \o " segundos",
                             estado |-> IF Abs(val_ms - total) <= ToleranceSeconds * MsPerSecond
                                        THEN "OK" ELSE "ERROR"])
       ELSE vals

\* the loop over stage_data, from item i on
RECURSIVE WalkFrom(_, _, _, _, _, _)
WalkFrom(promo, c, acum, sd, i, w) ==
    IF i > Len(sd) THEN w
    ELSE WalkFrom(promo, c, acum, sd, i + 1, StageStep(promo, c, acum, w, sd[i]))

\* the validations of one segment whose rows are not empty
SegmentValidations(promo, c, rows) ==
    LET sd == BuildStageData(rows, << >>)
        acum == FindAcum(sd)
    IN IF acum = << >> THEN << >>
       ELSE CrossRule(promo, sd, WalkFrom(promo, c, acum[1], sd, 1, WalkStart).validations)

-----------------------------------------------------------------------------
(* Inputs of the walk: templates and recorded rows *)

BaseDay == 10       \* day number of the anchor's recorded start
MaxStages == 2      \* recorded stages of a segment besides the anchor
MaxDur == 1         \* largest duration, in days, a template declares

PromoIds == {"17", "18", "22"}

ConfigKeys ==
    {"planificacion", "preEjecucion", "acumulacion", "validacion", "recalculo",
     "resultado", "resultadoIview", "pago", "vencido", "finalizado", "canjes",
     "canje", "canje1", "canje2", "sorteo1", "sorteo2"}

\* clock windows a template may declare for a stage
HourDefs ==
    { [start |-> "08:00", end |-> "09:00"],
      [start |-> "08:00:00"],
      [end |-> "09:00:00"],
      [start |-> "25:00", end |-> "09:00"],
      [start |-> "08:00", end |-> "9h"] }

HoursChoices ==
    { [k \in ConfigKeys |-> h] : h \in HourDefs }
    \cup { [k \in {"validacion", "resultado"} |-> [start |-> "08:00", end |-> "09:00"]] }

DurationChoices ==
    { [k \in ConfigKeys |-> d] : d \in 0..MaxDur } \cup { << >> }

\* rule templates as load_ejecucion_config builds them for a campaign type
Templates(promo) ==
    IF promo \in {"18", "19"}
    THEN { [durations_common |-> d, hours_common |-> h] :
                d \in DurationChoices \ {<< >>}, h \in HoursChoices }
         \cup { [hours_common |-> h] : h \in HoursChoices }
    ELSE { [durations |-> d, hours |-> h] :
                d \in DurationChoices \ {<< >>}, h \in HoursChoices }
         \cup { [hours |-> h] : h \in HoursChoices }

At(day, h, m, s, ms) == Combine(day, ((h * 60 + m) * 60 + s) * MsPerSecond + ms)

AcumStart == At(BaseDay, 23, 30, 0, 0)
AcumEnd == At(BaseDay + 4, 0, 0, 0, 0)

\* recorded (start, end) of a stage other than the anchor
RecordedWindows ==
    { <<At(BaseDay + 4, 8, 0, 0, 0), At(BaseDay + 4, 9, 0, 1, 0)>>,
      <<At(BaseDay + 4, 8, 0, 1, 1), At(BaseDay + 5, 9, 0, 0, 0)>>,
      <<At(BaseDay + 5, 8, 0, 0, 0), At(BaseDay + 5, 9, 0, 0, 0)>> }

\* raw stage names recorded for a campaign type, besides the anchor
RawStageNames(promo) ==
    IF promo = "17" THEN {"VALIDACION", "RECALCULO", "RESULTADO", "PAGOS_FISICO"}
    ELSE IF promo \in {"18", "19"} THEN {"CANJES", "Validaci$n", "RESULTADO", "CANJE1"}
    ELSE {"SORTEO1", "sorteo_2", "CANJE2", "VALIDACION"}

StageRow(n, win) == [nombre_etapa |-> n, fecha_inicio |-> win[1], fecha_fin |-> win[2]]

\* the anchor's row as recorded
AnchorRow == [nombre_etapa |-> "Acumulaci$n", fecha_inicio |-> AcumStart, fecha_fin |-> AcumEnd]

\* a segment without a usable anchor: its row has no end date, or is missing
NoAnchorRows ==
    { <<[nombre_etapa |-> "ACUMULACION", fecha_inicio |-> AcumStart, fecha_fin |-> NoDt]>>,
      << >> }

\* ORDER BY et.fecha_inicio ASC
SortedByStart(rows) ==
    \A i \in 1..(Len(rows) - 1) : rows[i].fecha_inicio <= rows[i + 1].fecha_inicio

DistinctNames(rows) ==
    \A i, j \in 1..Len(rows) : i # j => rows[i].nombre_etapa # rows[j].nombre_etapa

RECURSIVE SeqsUpTo(_, _)
SeqsUpTo(S, n) ==
    IF n = 0 THEN { << >> }
    ELSE LET shorter == SeqsUpTo(S, n - 1)
         IN shorter \cup { Append(q, x) : q \in { t \in shorter : Len(t) = n - 1 }, x \in S }

StageRowSeqs(promo, windows) ==
    { t \in SeqsUpTo({ StageRow(n, win) : n \in RawStageNames(promo), win \in windows },
                     MaxStages) :
        DistinctNames(t) /\ SortedByStart(t) }

\* a segment with both draws (3600 and 1800 seconds) and a validation stage
\* that lasts 5400 seconds, a second more, a little over that, or 5300 seconds
DrawRows ==
    { <<AnchorRow,
        StageRow("SORTEO1", <<At(BaseDay + 5, 8, 0, 0, 0), At(BaseDay + 5, 9, 0, 0, 0)>>),
        StageRow("sorteo_2", <<At(BaseDay + 5, 9, 0, 0, 0), At(BaseDay + 5, 9, 30, 0, 0)>>),
        StageRow("VALIDACION", <<At(BaseDay + 5, 10, 0, 0, 0), fin>>)>> :
            fin \in { At(BaseDay + 5, 11, 30, 0, 0), At(BaseDay + 5, 11, 30, 1, 0),
                      At(BaseDay + 5, 11, 30, 1, 1), At(BaseDay + 5, 11, 28, 20, 0) } }

\* what queryEtapasSeg may return for a segment of the campaign type
RowSequences(promo) ==
    { <<AnchorRow>> \o q : q \in StageRowSeqs(promo, RecordedWindows) }
    \cup DrawRows
    \cup { a \o q : a \in NoAnchorRows,
                    q \in StageRowSeqs(promo, { <<At(BaseDay + 4, 8, 0, 0, 0),
                                                  At(BaseDay + 4, 9, 0, 1, 0)>> }) }

-----------------------------------------------------------------------------
(* validate_etapas on one segment, an iteration of the loop at a time *)

SegEntry(vals) == [segmento |-> 1, nombreSegmento |-> "S1", validaciones |-> vals]

\* the run and the summary before validate_all is called
RunStart == [list_to_validate |-> << >>, pos |-> 0, calls |-> << >>]
NoSummary == [html |-> "", rows |-> << >>]

\* no call of validate_all has returned yet
NoRun == [ran |-> FALSE, reports |-> << >>, found |-> << >>]

InitEtapas ==
    /\ promo_id \in PromoIds
    /\ cfg \in Templates(promo_id)
    /\ stage_rows \in RowSequences(promo_id)
    /\ stage_data = << >>
    /\ idx = 0
    /\ walk = WalkStart
    /\ all_results = << >> /\ remaining = << >>
    /\ promos = << >> /\ rule_files = << >> /\ config = << >> /\ store = << >>
    /\ reports = << >>
    /\ run = RunStart /\ summary = NoSummary
    /\ fn = "" /\ arg = << >> /\ ret = << >>
    /\ previous = NoRun /\ outbox = << >>
    /\ pc = "query"

\* stage_rows = queryEtapasSeg(seg_id); the loop filling stage_data
EtQuery ==
    /\ pc = "query"
    /\ stage_data' = (IF stage_rows = << >> THEN << >> ELSE BuildStageData(stage_rows, << >>))
    /\ pc' = (IF stage_rows = << >> THEN "done" ELSE "anchor")
    /\ UNCHANGED <<promo_id, cfg, stage_rows, idx, walk, all_results, remaining,
                 runVars, callVars, mainVars>>

\* the anchor lookup: without it the segment's entry has no validations
EtAnchor ==
    /\ pc = "anchor"
    /\ IF FindAcum(stage_data) = << >>
       THEN /\ all_results' = Append(all_results, SegEntry(walk.validations))
            /\ pc' = "done"
       ELSE /\ all_results' = all_results
            /\ pc' = "loop"
    /\ UNCHANGED <<promo_id, cfg, stage_rows, stage_data, idx, walk, remaining,
                 runVars, callVars, mainVars>>

\* one iteration over stage_data.items()
EtStage ==
    /\ pc = "loop"
    /\ idx < Len(stage_data)
    /\ walk' = StageStep(promo_id, cfg, FindAcum(stage_data)[1], walk, stage_data[idx + 1])
    /\ idx' = idx + 1
    /\ UNCHANGED <<promo_id, cfg, stage_rows, stage_data, all_results, pc, remaining,
                 runVars, callVars, mainVars>>

\* after the loop: the Salta y Gana duration rule, then the segment's entry
EtFinish ==
    /\ pc = "loop"
    /\ idx = Len(stage_data)
    /\ walk' = [walk EXCEPT !.validations = CrossRule(promo_id, stage_data, @)]
    /\ all_results' = Append(all_results, SegEntry(walk'.validations))
    /\ pc' = "done"
    /\ UNCHANGED <<promo_id, cfg, stage_rows, stage_data, idx, remaining,
                 runVars, callVars, mainVars>>

\* the locals a walk starts with, bound anew for every segment
FreshWalk_kept(w) == w

FreshWalk(w) == WalkStart

\* the next iteration of `for seg in segments`: its stage rows are queried,
\* and stage_data, validations and the expectation maps are bound anew
EtNextSegment ==
    /\ pc = "done" /\ remaining # << >>
    /\ stage_rows' = Head(remaining) /\ remaining' = Tail(remaining)
    /\ stage_data' = << >> /\ idx' = 0
    /\ walk' = FreshWalk(walk)
    /\ pc' = "query"
    /\ UNCHANGED <<promo_id, cfg, all_results, runVars, callVars, mainVars>>

NextEtapas == EtQuery \/ EtAnchor \/ EtStage \/ EtFinish

SpecEtapas == InitEtapas /\ [][NextEtapas]_vars

-----------------------------------------------------------------------------
(* Properties of the walk over one segment *)

Durations == DurationsOf(promo_id, cfg)
KeyOf(name) == Get(stage_key_map(promo_id), name, None)
WindowOf(name) == Get(HoursOf(promo_id, cfg), KeyOf(name), << >>)
StartClock(name) == Get(WindowOf(name), "start", None)
EndClock(name) == Get(WindowOf(name), "end", None)

\* the time of day a clock string of the templates denotes, NoDt if it denotes none
ClockOf(str) ==
    CASE str \in {"08:00", "08:00:00"} -> 8 * 3600 * MsPerSecond
      [] str \in {"09:00", "09:00:00"} -> 9 * 3600 * MsPerSecond
      [] OTHER -> NoDt

\* stages the reference table gives no reference
NoReference(key) == promo_id \in {"18", "19"} /\ key \in {"canje1", "canje2"}

\* the stages the loop has evaluated so far
Evaluated ==
    { i \in 1..idx : KeyOf(stage_data[i].name) # None /\ ~NoReference(KeyOf(stage_data[i].name)) }

\* the locals of the walk are those of the stage at idx
AtStage == idx >= 1 /\ KeyOf(stage_data[idx].name) # None

VerdictsOf(name, rule) ==
    { i \in DOMAIN walk.validations :
        walk.validations[i].etapa = name /\ walk.validations[i].regla = rule }

HasVerdict(name, rule) == VerdictsOf(name, rule) # {}

VerdictSet(vals) == { vals[i] : i \in DOMAIN vals }

\* the orders in which a query sorted by start date may return the rows
StoreOrders(rows) ==
    LET n == Len(rows)
        perms == { f \in [1..n -> 1..n] : \A i, j \in 1..n : i # j => f[i] # f[j] }
    IN { q \in { [i \in 1..n |-> rows[f[i]]] : f \in perms } : SortedByStart(q) }

\* C1 (as claimed): the verdicts of a segment are the same for every order in
\* which the store returns its stage rows, predecessors being evaluated first
C1_Claimed ==
    (pc = "done" /\ FindAcum(stage_data) # << >>) =>
        \A q \in StoreOrders(stage_rows) :
            VerdictSet(SegmentValidations(promo_id, cfg, q)) = VerdictSet(walk.validations)

\* the recorded and the expected instant a timing verdict compares
RecordedOf(v) ==
    LET item == StageGet(stage_data, v.etapa)[1]
    IN IF v.regla = RuleInicio THEN item.start ELSE item.end

ExpectedOf(v) ==
    IF v.regla = RuleInicio THEN walk.expected_starts[v.etapa]
    ELSE walk.expected_ends[v.etapa]

TimingVerdicts ==
    { i \in DOMAIN walk.validations : walk.validations[i].regla \in {RuleInicio, RuleFin} }

\* C5: a timing verdict is OK exactly when the recorded instant differs from
\* the expected one by at most 1 second in absolute value, and ERROR otherwise
C5_Tolerance ==
    \A i \in TimingVerdicts :
        LET v == walk.validations[i]
        IN /\ v.valor_esperado = fmt(ExpectedOf(v))
           /\ v.valor_encontrado = fmt(RecordedOf(v))
           /\ v.estado = IF Abs(RecordedOf(v) - ExpectedOf(v)) <= 1 * MsPerSecond
                         THEN "OK" ELSE "ERROR"

\* a verdict at exactly one second is OK and one a millisecond beyond is ERROR
C5_Witness ==
    \E i, j \in TimingVerdicts :
        /\ Abs(RecordedOf(walk.validations[i]) - ExpectedOf(walk.validations[i])) = MsPerSecond
        /\ walk.validations[i].estado = "OK"
        /\ Abs(RecordedOf(walk.validations[j]) - ExpectedOf(walk.validations[j]))
               = MsPerSecond + 1
        /\ walk.validations[j].estado = "ERROR"

\* the expected window of the stage at idx, for end_days days up to its end
WindowAsClaimed(end_days) ==
    LET n == stage_data[idx].name
        ref_day == walk.ref_dt \div MsPerDay
    IN /\ ClockOf(StartClock(n)) # NoDt =>
            walk.expected_start_dt
                = (ref_day + walk.day_offset) * MsPerDay + ClockOf(StartClock(n))
       /\ ClockOf(EndClock(n)) # NoDt =>
            walk.expected_end_dt
                = (ref_day + walk.day_offset + end_days) * MsPerDay + ClockOf(EndClock(n))

EndDays(key) ==
    IF promo_id = "17" /\ key \in {"resultadoIview", "pago"} THEN 1
    ELSE Get(Durations, key, 0)

Predecessor(key) ==
    IF promo_id = "17" THEN
        IF key = "resultado" THEN [names |-> {"RECALCULO"}, half |-> "end"]
        ELSE IF key = "finalizado" THEN [names |-> {"RESULTADO"}, half |-> "end"]
        ELSE [names |-> {}, half |-> "none"]
    ELSE IF key = "validacion" THEN
        [names |-> IF promo_id = "22" THEN {"CANJE2", "CANJE 2"} ELSE {"CANJES", "CANJE"},
         half |-> "end"]
    ELSE IF key = "canje2" /\ promo_id = "22"
         THEN [names |-> {"CANJE1", "CANJE 1"}, half |-> "end"]
    ELSE IF key = "resultado" THEN [names |-> {"VALIDACION"}, half |-> "start"]
    ELSE IF key = "finalizado" THEN [names |-> {"RESULTADO"}, half |-> "start"]
    ELSE [names |-> {}, half |-> "none"]

RecordedNames == { stage_data[i].name : i \in DOMAIN stage_data }

\* C8 (as claimed): the entry of a processed stage is its expected instant if
\* computed, else the recorded one; a dependent stage takes its predecessor's
\* entry as reference, and the anchor's recorded end only when the predecessor
\* has no recorded data
C8_Claimed ==
    AtStage =>
        LET item == stage_data[idx]
            pred == Predecessor(KeyOf(item.name))
            map == IF pred.half = "start" THEN walk.expected_starts ELSE walk.expected_ends
        IN /\ walk.expected_starts[item.name]
                = (IF walk.expected_start_dt # NoDt THEN walk.expected_start_dt
                   ELSE item.start)
           /\ walk.expected_ends[item.name]
                = (IF walk.expected_end_dt # NoDt THEN walk.expected_end_dt ELSE item.end)
           /\ pred.half # "none" =>
                IF pred.names \cap RecordedNames # {}
                THEN \E p \in pred.names \cap RecordedNames :
                        p \in DOMAIN map /\ walk.ref_dt = map[p]
                ELSE walk.ref_dt = FindAcum(stage_data)[1].end

\* C9: a half of a stage has a timing verdict exactly when the template gives
\* it a clock time that parses; no half is reported SKIPPED or otherwise, and
\* the other half and the other stages keep their verdicts
C9_NoVerdictWithoutExpectation ==
    /\ \A i \in Evaluated :
          /\ HasVerdict(stage_data[i].name, RuleInicio)
                <=> ClockOf(StartClock(stage_data[i].name)) # NoDt
          /\ HasVerdict(stage_data[i].name, RuleFin)
                <=> ClockOf(EndClock(stage_data[i].name)) # NoDt
    /\ \A i \in TimingVerdicts : walk.validations[i].estado \in {"OK", "ERROR"}

\* a stage whose start clock does not parse has its end verdict, beside
\* another stage that was evaluated
C9_Witness ==
    \E i, j \in Evaluated :
        /\ i # j
        /\ StartClock(stage_data[i].name) = "25:00"
        /\ ~HasVerdict(stage_data[i].name, RuleInicio)
        /\ HasVerdict(stage_data[i].name, RuleFin)
        /\ HasVerdict(stage_data[j].name, RuleFin)

\* C10 (as claimed): a half whose window declares no clock time is reported
\* with a SKIPPED verdict
C10_Claimed ==
    \A i \in Evaluated :
        /\ "start" \notin DOMAIN WindowOf(stage_data[i].name) =>
              \E v \in VerdictsOf(stage_data[i].name, RuleInicio) :
                  walk.validations[v].estado = "SKIPPED"
        /\ "end" \notin DOMAIN WindowOf(stage_data[i].name) =>
              \E v \in VerdictsOf(stage_data[i].name, RuleFin) :
                  walk.validations[v].estado = "SKIPPED"

\* C10: a half whose window declares no clock time has no expectation (the
\* stage's entry is the recorded instant) and no verdict at all
C10_NoClockNoVerdict ==
    \A i \in 1..idx :
        KeyOf(stage_data[i].name) # None =>
            /\ "start" \notin DOMAIN WindowOf(stage_data[i].name) =>
                  /\ ~HasVerdict(stage_data[i].name, RuleInicio)
                  /\ walk.expected_starts[stage_data[i].name] = stage_data[i].start
            /\ "end" \notin DOMAIN WindowOf(stage_data[i].name) =>
                  /\ ~HasVerdict(stage_data[i].name, RuleFin)
                  /\ walk.expected_ends[stage_data[i].name] = stage_data[i].end

\* a stage whose window declares an end but no start, with its end verdict
C10_Witness ==
    \E i \in Evaluated :
        /\ "start" \notin DOMAIN WindowOf(stage_data[i].name)
        /\ "end" \in DOMAIN WindowOf(stage_data[i].name)
        /\ ~HasVerdict(stage_data[i].name, RuleInicio)
        /\ HasVerdict(stage_data[i].name, RuleFin)

\* the recorded duration, in milliseconds, of the complete rows whose name
\* normalizes to one of names
RECURSIVE RecordedMs(_, _)
RecordedMs(rows, names) ==
    IF rows = << >> THEN 0
    ELSE LET r == Head(rows)
         IN (IF /\ r.fecha_inicio # NoDt /\ r.fecha_fin # NoDt
                /\ _normalize_stage_name(r.nombre_etapa) \in names
             THEN r.fecha_fin - r.fecha_inicio ELSE 0) + RecordedMs(Tail(rows), names)

DrawStages == {"SORTEO1", "SORTEO 1", "SORTEO2", "SORTEO 2"}

DrawVerdicts == { i \in DOMAIN walk.validations : walk.validations[i].regla = RuleSorteos }

\* C11: a segment of campaign 22 whose VALIDACION stage and draws are recorded
\* gets one more verdict, on VALIDACION, which is OK iff the recorded duration
\* of VALIDACION is within a second of the sum of the recorded durations of
\* the draws SORTEO1 and SORTEO2; no other campaign type gets such a verdict
C11_DrawDuration ==
    (pc = "done" /\ FindAcum(stage_data) # << >>) =>
        LET draws == RecordedMs(stage_rows, DrawStages)
            val == RecordedMs(stage_rows, {"VALIDACION"})
        IN /\ promo_id # "22" => DrawVerdicts = {}
           /\ Cardinality(DrawVerdicts) <= 1
           /\ (promo_id = "22" /\ StageGet(stage_data, "VALIDACION") # << >> /\ draws > 0)
                  => DrawVerdicts # {}
           /\ \A i \in DrawVerdicts :
                  /\ i = Len(walk.validations)
                  /\ walk.validations[i].etapa = "VALIDACION"
                  /\ walk.validations[i].estado \in {"OK", "ERROR"}
                  /\ walk.validations[i].estado = "OK"
                        <=> Abs(val - draws) <= MsPerSecond

\* draws of 3600 and 1800 seconds against a validation of 5401 seconds: OK
C11_Witness ==
    /\ pc = "done" /\ promo_id = "22"
    /\ RecordedMs(stage_rows, {"SORTEO1"}) = 3600 * MsPerSecond
    /\ RecordedMs(stage_rows, {"SORTEO 2"}) = 1800 * MsPerSecond
    /\ RecordedMs(stage_rows, {"VALIDACION"}) = 5401 * MsPerSecond
    /\ \E i \in DrawVerdicts : walk.validations[i].estado = "OK"

\* the reference of a stage as C12 states it: the predecessor's entry in
\* expected_starts, the anchor's end when it has none
StartReference(predecessor) ==
    IF predecessor \in DOMAIN walk.expected_starts
    THEN walk.expected_starts[predecessor]
    ELSE FindAcum(stage_data)[1].end

\* C12 (as claimed): in every family, the ranking family included, RESULTADO
\* refers to the start of VALIDACION and FINALIZADO to the start of RESULTADO
C12_Claimed ==
    AtStage =>
        /\ KeyOf(stage_data[idx].name) = "resultado"
              => walk.ref_dt = StartReference("VALIDACION")
        /\ KeyOf(stage_data[idx].name) = "finalizado"
              => walk.ref_dt = StartReference("RESULTADO")

-----------------------------------------------------------------------------
(* validate_segments: the five categories of one segment *)

\* a number the store or the template does not give (None)
NoNum == 0 - 1

\* the result of a query: its rows, or an exception
Rows(rows) == [raises |-> FALSE, rows |-> rows]
QueryFails == [raises |-> TRUE, rows |-> << >>]

\* sorted(set(values)) on numbers
RECURSIVE SortedNums(_)
SortedNums(S) ==
    IF S = {} THEN << >>
    ELSE LET m == CHOOSE x \in S : \A y \in S : x <= y
         IN <<m>> \o SortedNums(S \ {m})

\* the order of tuples of numbers, as Python compares sort keys
LexLess(a, b) ==
    \E i \in 1..Len(a) : a[i] < b[i] /\ \A j \in 1..(i - 1) : a[j] = b[j]

\* list.sort(key=...): a stable sort of items by their key tuples
InsertByKey(sorted, x) ==
    LET p == Cardinality({ i \in 1..Len(sorted) : ~LexLess(x.key, sorted[i].key) })
    IN SubSeq(sorted, 1, p) \o <<x>> \o SubSeq(sorted, p + 1, Len(sorted))

RECURSIVE SortByKey(_, _)
SortByKey(items, acc) ==
    IF items = << >> THEN acc
    ELSE SortByKey(Tail(items), InsertByKey(acc, Head(items)))

Values(items) == [i \in 1..Len(items) |-> items[i].val]

\* r.get(k1) or r.get(k2) or ... or 0: the first value that is neither None nor 0
RECURSIVE FirstTruthy(_, _)
FirstTruthy(r, keys) ==
    IF keys = << >> THEN 0
    ELSE IF Head(keys) \in DOMAIN r /\ r[Head(keys)] # NoNum /\ r[Head(keys)] # 0
         THEN r[Head(keys)]
         ELSE FirstTruthy(r, Tail(keys))

\* a skipped verdict that gives no reason
Skipped_silent(category) == [status |-> "SKIPPED", reason |-> ""]

\* the verdict of a category the template does not declare
Skipped(category) ==
    [status |-> "SKIPPED", reason |-> "No \"" \o category \o "\" in JSON"]

\* a multiplier verdict that accepts the expected value among other values
MultiplicadorSeg_any(c, rows) ==
    LET unique == SortedNums({ rows[i].valor_multiplicador : i \in DOMAIN rows })
    IN [expected |-> c.multiplicador, found |-> unique,
        status |-> IF \E i \in DOMAIN unique : unique[i] = c.multiplicador
                   THEN "OK" ELSE "ERROR"]

\* Multiplicador per segment
MultiplicadorSeg(c, rows) ==
    LET unique == SortedNums({ rows[i].valor_multiplicador : i \in DOMAIN rows })
    IN [expected |-> c.multiplicador, found |-> unique,
        status |-> IF Len(unique) = 1 /\ unique[1] = c.multiplicador
                   THEN "OK" ELSE "ERROR"]

\* the sort key (min, max or +infinity, puntaje) of an equivalence band
EquivalenciaKey(b) ==
    <<b.min, IF b.max = NoNum THEN 1 ELSE 0, IF b.max = NoNum THEN 0 ELSE b.max, b.puntaje>>

\* normalize_config: the bands of the template
normalize_config(arr) ==
    [i \in 1..Len(arr) |->
        [min |-> FirstTruthy(arr[i], <<"minimo", "min", "condicion_minima">>),
         max |-> IF "maximo" \in DOMAIN arr[i] THEN arr[i].maximo
                 ELSE Get(arr[i], "max", NoNum),
         puntaje |-> FirstTruthy(arr[i], <<"puntaje", "valor_puntaje">>)]]

\* normalize_rows_seg: the bands recorded for the segment
normalize_rows_seg(rows) ==
    [i \in 1..Len(rows) |->
        [min |-> rows[i].condicion_minima,
         max |-> Get(rows[i], "condicion_maxima", NoNum),
         puntaje |-> rows[i].valor_puntaje]]

\* bands compared in the order they are given
SortEquivalencias_unsorted(bands) == bands

\* list.sort(key=(min, max or +inf, puntaje))
SortEquivalencias(bands) ==
    Values(SortByKey([i \in 1..Len(bands) |->
                        [key |-> EquivalenciaKey(bands[i]), val |-> bands[i]]], << >>))

\* Equivalencias per segment
EquivalenciasSeg(c, rows) ==
    LET expected_eq == SortEquivalencias(normalize_config(c.equivalencias))
        found_eq == SortEquivalencias(normalize_rows_seg(rows))
    IN [expected |-> expected_eq, found |-> found_eq,
        status |-> IF expected_eq = found_eq THEN "OK" ELSE "ERROR"]

\* str() of a number of the store or of the template, or of None
Str(v) == IF v = NoNum THEN "None" ELSE ToString(v)

\* an ordered dict as a sequence of (k, v) items: d[k] = v and d.get(k, default)
DictPut(d, k, v) ==
    IF \E i \in 1..Len(d) : d[i].k = k
    THEN [i \in 1..Len(d) |-> IF d[i].k = k THEN [k |-> k, v |-> v] ELSE d[i]]
    ELSE Append(d, [k |-> k, v |-> v])

DictGet(d, k, default) ==
    IF \E i \in 1..Len(d) : d[i].k = k
    THEN d[CHOOSE i \in 1..Len(d) : d[i].k = k].v
    ELSE default

\* found_map: the recorded value of each upper-cased code, the last row winning
RECURSIVE FoundMap(_, _)
FoundMap(rows, m) ==
    IF rows = << >> THEN m
    ELSE FoundMap(Tail(rows),
                  DictPut(m, StrUpper(Head(rows).codigo_compuesto), Head(rows).valor_entero))

\* diffs: the expected keys whose recorded value has another string form
RECURSIVE ConfigDiffs(_, _, _)
ConfigDiffs(items, found_map, diffs) ==
    IF items = << >> THEN diffs
    ELSE LET key == StrUpper(Head(items).k)
             found == DictGet(found_map, key, NoNum)
         IN ConfigDiffs(Tail(items), found_map,
                        IF Str(found) # Str(Head(items).v)
                        THEN DictPut(diffs, key, [expected |-> Head(items).v, found |-> found])
                        ELSE diffs)

\* all_ok: no expected key differs
ConfigAllOk(items, found_map) ==
    \A i \in 1..Len(items) :
        Str(DictGet(found_map, StrUpper(items[i].k), NoNum)) = Str(items[i].v)

\* Configuraciones per segment
ConfiguracionesSeg(c, rows) ==
    [expected |-> c.configuraciones, found |-> FoundMap(rows, << >>),
     diffs |-> ConfigDiffs(c.configuraciones, FoundMap(rows, << >>), << >>),
     status |-> IF ConfigAllOk(c.configuraciones, FoundMap(rows, << >>))
                THEN "OK" ELSE "ERROR"]

\* normalize_premios_seg: the tiers, sorted by (valor_premio, condicion_minima,
\* cantidad_ganadores)
normalize_premios_seg(arr) ==
    LET tier(r) ==
            [condicion_minima |-> FirstTruthy(r, <<"condicion_minima", "minimo", "min">>),
             condicion_maxima |-> FirstTruthy(r, <<"condicion_maxima", "maximo", "max">>),
             valor_premio |-> FirstTruthy(r, <<"valor_premio", "valor">>),
             cantidad_ganadores |-> FirstTruthy(r, <<"cantidad_ganadores", "cantidad">>)]
        keyed(t) ==
            [key |-> <<t.valor_premio, t.condicion_minima, t.cantidad_ganadores>>, val |-> t]
    IN Values(SortByKey([i \in 1..Len(arr) |-> keyed(tier(arr[i]))], << >>))

\* Premios per segment
PremiosSeg(c, rows) ==
    LET expected_premios == normalize_premios_seg(c.premios)
        found_premios == normalize_premios_seg(rows)
    IN [expected |-> expected_premios, found |-> found_premios,
        status |-> IF expected_premios = found_premios THEN "OK" ELSE "ERROR"]

\* the code points of the characters left in a normalized stage name
CodeOrder == " 0123456789ABCDEFGHIJKLMNOPQRSTUVWXYZ"

\* the order of strings, as Python compares them
RECURSIVE StrLess(_, _)
StrLess(a, b) ==
    IF b = "" THEN FALSE
    ELSE IF a = "" THEN TRUE
    ELSE IF Ch(a, 1) = Ch(b, 1) THEN StrLess(Tail(a), Tail(b))
    ELSE Pos(Ch(a, 1), CodeOrder) < Pos(Ch(b, 1), CodeOrder)

\* sorted(...) on a set of strings
RECURSIVE SortedStrs(_)
SortedStrs(S) ==
    IF S = {} THEN << >>
    ELSE LET m == CHOOSE x \in S : \A y \in S \ {x} : StrLess(x, y)
         IN <<m>> \o SortedStrs(S \ {m})

\* str(r['nombre_etapa'])
StrName(n) == IF n = None THEN "None" ELSE n

\* a comparison of the expected names with the recorded names as recorded
EtapasSeg_raw(c, rows) ==
    LET expected_norm == { _normalize_stage_name(n) : n \in DOMAIN c.etapas }
        found_norm == { StrName(rows[i].nombre_etapa) : i \in DOMAIN rows }
        missing == SortedStrs(expected_norm \ found_norm)
        extra == SortedStrs(found_norm \ expected_norm)
    IN [expected |-> SortedStrs(expected_norm), found |-> SortedStrs(found_norm),
        missing |-> missing, extra |-> extra,
        status |-> IF missing = << >> /\ extra = << >> THEN "OK" ELSE "ERROR"]

\* Etapas per segment: the expected against the recorded stage names
EtapasSeg(c, rows) ==
    LET expected_norm == { _normalize_stage_name(n) : n \in DOMAIN c.etapas }
        found_norm == { _normalize_stage_name(StrName(rows[i].nombre_etapa)) :
                            i \in DOMAIN rows }
        missing == SortedStrs(expected_norm \ found_norm)
        extra == SortedStrs(found_norm \ expected_norm)
    IN [expected |-> SortedStrs(expected_norm), found |-> SortedStrs(found_norm),
        missing |-> missing, extra |-> extra,
        status |-> IF missing = << >> /\ extra = << >> THEN "OK" ELSE "ERROR"]

\* the truth value of cfg.get(key) for a list or a dict of the template
Declares(c, key) == key \in DOMAIN c /\ c[key] # << >>

\* isinstance(cfg.get('multiplicador'), (int, float))
DeclaresMultiplicador(c) == "multiplicador" \in DOMAIN c /\ c.multiplicador # NoNum

\* seg_result: the entry of one segment in validacion_segmentos.json
SegResult(c, seg) ==
    [segmento |-> seg.row.id_ejecucion_segmento,
     nombreSegmento |-> Get(seg.row, "nombre_segmento", None),
     multiplicador |->
        IF DeclaresMultiplicador(c) THEN MultiplicadorSeg(c, seg.multiplicador.rows)
        ELSE Skipped("multiplicador"),
     equivalencias |->
        IF Declares(c, "equivalencias") THEN EquivalenciasSeg(c, seg.equivalencias.rows)
        ELSE Skipped("equivalencias"),
     configuraciones |->
        IF Declares(c, "configuraciones")
        THEN ConfiguracionesSeg(c, seg.configuraciones.rows)
        ELSE Skipped("configuraciones"),
     premios |->
        IF Declares(c, "premios") THEN PremiosSeg(c, seg.premios.rows)
        ELSE Skipped("premios"),
     etapas |->
        IF Declares(c, "etapas") THEN EtapasSeg(c, seg.etapas.rows)
        ELSE Skipped("etapas")]

\* an exception while the segment is validated by validate_segments
SegmentRaises(c, seg) ==
    \/ "id_ejecucion_segmento" \notin DOMAIN seg.row
    \/ DeclaresMultiplicador(c)
          /\ (seg.multiplicador.raises
                \/ \E i \in DOMAIN seg.multiplicador.rows :
                        seg.multiplicador.rows[i].valor_multiplicador = NoNum)
    \/ Declares(c, "equivalencias") /\ seg.equivalencias.raises
    \/ Declares(c, "configuraciones") /\ seg.configuraciones.raises
    \/ Declares(c, "premios") /\ seg.premios.raises
    \/ Declares(c, "etapas") /\ seg.etapas.raises

\* the outcome of validate_segments' try block: the document written, if any
SegmentsOutcome(c, segments) ==
    IF segments.raises \/ \E i \in DOMAIN segments.rows : SegmentRaises(c, segments.rows[i])
    THEN [raised |-> TRUE, written |-> FALSE, doc |-> << >>]
    ELSE IF segments.rows = << >>
    THEN [raised |-> FALSE, written |-> FALSE, doc |-> << >>]
    ELSE [raised |-> FALSE, written |-> TRUE,
          doc |-> [i \in DOMAIN segments.rows |-> SegResult(c, segments.rows[i])]]

\* the entry of one segment in validacion_etapas.json
EtapasEntry(promo, c, seg) ==
    [segmento |-> seg.row.id_ejecucion_segmento,
     nombreSegmento |-> Get(seg.row, "nombre_segmento", None),
     validaciones |-> SegmentValidations(promo, c, seg.etapas.rows)]

\* all_results: an entry for each segment that has stage rows
RECURSIVE EtapasResults(_, _, _)
EtapasResults(promo, c, segs) ==
    IF segs = << >> THEN << >>
    ELSE IF Head(segs).etapas.rows = << >> THEN EtapasResults(promo, c, Tail(segs))
    ELSE <<EtapasEntry(promo, c, Head(segs))>> \o EtapasResults(promo, c, Tail(segs))

\* an exception while the segment is validated by validate_etapas
EtapasRaises(seg) ==
    "id_ejecucion_segmento" \notin DOMAIN seg.row \/ seg.etapas.raises

\* validate_etapas writing what it gathered before the segment that fails
EtapasOutcome_partial(promo, c, segments) ==
    IF segments.raises THEN [raised |-> TRUE, written |-> FALSE, doc |-> << >>]
    ELSE IF \E i \in DOMAIN segments.rows : EtapasRaises(segments.rows[i])
    THEN [raised |-> TRUE, written |-> TRUE, doc |-> << >>]
    ELSE IF segments.rows = << >>
    THEN [raised |-> FALSE, written |-> FALSE, doc |-> << >>]
    ELSE [raised |-> FALSE, written |-> TRUE,
          doc |-> EtapasResults(promo, c, segments.rows)]

\* the outcome of validate_etapas' try block: the document written, if any
EtapasOutcome(promo, c, segments) ==
    IF segments.raises \/ \E i \in DOMAIN segments.rows : EtapasRaises(segments.rows[i])
    THEN [raised |-> TRUE, written |-> FALSE, doc |-> << >>]
    ELSE IF segments.rows = << >>
    THEN [raised |-> FALSE, written |-> FALSE, doc |-> << >>]
    ELSE [raised |-> FALSE, written |-> TRUE,
          doc |-> EtapasResults(promo, c, segments.rows)]

-----------------------------------------------------------------------------
(* build_summary: one row for each directory of the reports root *)

\* the documents of a directory: a list of entries, a dict (legacy verdict),
\* or a non-empty list whose items are not objects
JsonList(items) == [kind |-> "list", items |-> items, data |-> << >>]
JsonDict(data) == [kind |-> "dict", items |-> << >>, data |-> data]
JsonStrings == [kind |-> "strings", items |-> << >>, data |-> << >>]
NoJson == [kind |-> "none", items |-> << >>, data |-> << >>]

\* _read_json, and the guarded loads of the two per-segment documents
_read_json(files, fname) == Get(files, fname, NoJson)

\* cat_to_key, in its order
cat_to_key ==
    << [cat |-> "Multiplicador", key |-> "multiplicador"],
       [cat |-> "Equivalencias", key |-> "equivalencias"],
       [cat |-> "Configuraciones", key |-> "configuraciones"],
       [cat |-> "Premios", key |-> "premios"],
       [cat |-> "Etapas", key |-> "etapas"] >>

\* ', '.join and its like
RECURSIVE Join(_, _)
Join(strs, sep) ==
    IF strs = << >> THEN ""
    ELSE IF Len(strs) = 1 THEN strs[1]
    ELSE strs[1] \o sep \o Join(Tail(strs), sep)

\* str() of a float that holds a whole number, and of a list of them
ReprFloat(n) == ToString(n) \o ".0"
ReprFloats(ns) == "[" \o Join([i \in 1..Len(ns) |-> ReprFloat(ns[i])], ", ") \o "]"

\* item.get('segmento') or item.get('segmentId') or item.get('id'), in an f-string
SegLabel(item) == "Seg " \o (IF item.segmento # 0 THEN ToString(item.segmento) ELSE "None")

\* the message of a segment whose verdict for a category is ERROR
ErrorMessage(key, item) ==
    IF key = "multiplicador"
    THEN SegLabel(item) \o ": esperado " \o ToString(item[key].expected)
             \o ", encontrado " \o ReprFloats(item[key].found)
    ELSE IF key = "equivalencias" THEN SegLabel(item) \o ": diferencias en equivalencias"
    ELSE IF key = "configuraciones"
    THEN IF item[key].diffs # << >>
         THEN SegLabel(item) \o ": "
                \o Join([i \in 1..Len(item[key].diffs) |->
                            item[key].diffs[i].k \o ": esp "
                                \o Str(item[key].diffs[i].v.expected) \o ", obt "
                                \o Str(item[key].diffs[i].v.found)], ", ")
         ELSE SegLabel(item) \o ": diferencias en configuraciones"
    ELSE SegLabel(item) \o ": diferencias en premios"

\* the messages of the segments reporting ERROR for a category
RECURSIVE ErrorMessages(_, _)
ErrorMessages(key, items) ==
    IF items = << >> THEN << >>
    ELSE (IF Head(items)[key].status = "ERROR" THEN <<ErrorMessage(key, Head(items))>>
          ELSE << >>) \o ErrorMessages(key, Tail(items))

\* the messages of the timing verdicts of a segment that are ERROR
RECURSIVE TimingMessages(_, _)
TimingMessages(item, vals) ==
    IF vals = << >> THEN << >>
    ELSE (IF Head(vals).estado = "ERROR"
          THEN <<SegLabel(item) \o " - " \o Head(vals).etapa \o ": " \o Head(vals).regla
                    \o " (esp " \o Head(vals).valor_esperado
                    \o ", obt " \o Head(vals).valor_encontrado \o ")">>
          ELSE << >>) \o TimingMessages(item, Tail(vals))

RECURSIVE EtapasListMessages(_)
EtapasListMessages(items) ==
    IF items = << >> THEN << >>
    ELSE TimingMessages(Head(items), Head(items).validaciones)
            \o EtapasListMessages(Tail(items))

\* the message of a segment whose stage names differ from the expected ones
StageNamesMessage(item) ==
    LET missing == IF "missing" \in DOMAIN item.etapas THEN item.etapas.missing ELSE << >>
        extra == IF "extra" \in DOMAIN item.etapas THEN item.etapas.extra ELSE << >>
        parts == (IF missing # << >> THEN <<"faltan " \o Join(missing, ", ")>> ELSE << >>)
              \o (IF extra # << >> THEN <<"sobran " \o Join(extra, ", ")>> ELSE << >>)
    IN IF parts # << >> THEN SegLabel(item) \o ": " \o Join(parts, " y ")
       ELSE SegLabel(item) \o ": diferencias en etapas"

RECURSIVE StageNamesMessages(_)
StageNamesMessages(items) ==
    IF items = << >> THEN << >>
    ELSE (IF Head(items).etapas.status = "ERROR" THEN <<StageNamesMessage(Head(items))>>
          ELSE << >>) \o StageNamesMessages(Tail(items))

AnyStatus(items, key, status) == \E i \in 1..Len(items) : items[i][key].status = status

\* OK if any, else ERROR if any, else SKIPPED
Derived_ok_first(any_error, any_ok, msgs) ==
    [status |-> IF any_ok THEN "OK" ELSE IF any_error THEN "ERROR" ELSE "SKIPPED",
     msgs |-> msgs]

\* ERROR if any, else OK if any, else SKIPPED
Derived(any_error, any_ok, msgs) ==
    [status |-> IF any_error THEN "ERROR" ELSE IF any_ok THEN "OK" ELSE "SKIPPED",
     msgs |-> msgs]

\* a category other than Etapas, derived from the segments document
StaticCategory(key, seg_list) ==
    IF seg_list = << >> THEN [status |-> "SKIPPED", msgs |-> << >>]
    ELSE Derived(AnyStatus(seg_list, key, "ERROR"), AnyStatus(seg_list, key, "OK"),
                 ErrorMessages(key, seg_list))

\* the timing verdicts of a segment: an ERROR among them, or some and no ERROR
SegAnyError(item) == \E i \in 1..Len(item.validaciones) : item.validaciones[i].estado = "ERROR"
SegAllFine(item) == item.validaciones # << >> /\ ~SegAnyError(item)

\* the category Etapas, the stage names of the segments document consulted
\* whatever the timing verdicts are
EtapasCategory_both(seg_list, etapas_list) ==
    IF seg_list = << >> /\ etapas_list = << >> THEN [status |-> "SKIPPED", msgs |-> << >>]
    ELSE Derived((\E i \in 1..Len(etapas_list) : SegAnyError(etapas_list[i]))
                    \/ AnyStatus(seg_list, "etapas", "ERROR"),
                 (\E i \in 1..Len(etapas_list) : SegAllFine(etapas_list[i]))
                    \/ AnyStatus(seg_list, "etapas", "OK"),
                 EtapasListMessages(etapas_list) \o StageNamesMessages(seg_list))

\* the category Etapas: the timing verdicts, then the stage names of the
\* segments document unless a timing verdict is ERROR
EtapasCategory(seg_list, etapas_list) ==
    IF seg_list = << >> /\ etapas_list = << >> THEN [status |-> "SKIPPED", msgs |-> << >>]
    ELSE IF \E i \in 1..Len(etapas_list) : SegAnyError(etapas_list[i])
    THEN Derived(TRUE, \E i \in 1..Len(etapas_list) : SegAllFine(etapas_list[i]),
                 EtapasListMessages(etapas_list))
    ELSE Derived(AnyStatus(seg_list, "etapas", "ERROR"),
                 (\E i \in 1..Len(etapas_list) : SegAllFine(etapas_list[i]))
                    \/ AnyStatus(seg_list, "etapas", "OK"),
                 StageNamesMessages(seg_list))

\* the items of a per-segment document: << >> when it is missing or no list
ListOf(files, fname) ==
    IF _read_json(files, fname).kind = "list" THEN _read_json(files, fname).items ELSE << >>

\* a legacy per-category file: a dict with a status
IsLegacy(j) == j.kind = "dict" /\ "status" \in DOMAIN j.data

\* the message a legacy file contributes: its details, stripped, if not empty
LegacyMsgs(j) ==
    IF IsLegacy(j) /\ Get(j.data, "details", "") # ""
    THEN <<Strip(j.data.details)>> ELSE << >>

\* the verdict of a legacy per-category file; not_skipped is the category's
\* `all_skipped = False`
LegacyCategory(j) ==
    [status |-> j.data.status, msgs |-> LegacyMsgs(j),
     not_skipped |-> j.data.status # "SKIPPED"]

\* category_statuses[cat] is not None after the loop over the legacy files
Decided(j) == IsLegacy(j) /\ j.data.status # None

\* a category computed from the per-segment documents, after the loop over
\* the legacy files left its status None
Computed(j, d) ==
    [status |-> d.status, msgs |-> LegacyMsgs(j) \o d.msgs,
     not_skipped |-> IsLegacy(j) \/ d.status # "SKIPPED"]

LegacyFile(files, key) == _read_json(files, "validacion_" \o key \o ".json")

\* category_statuses and category_msgs of a directory, for one category
Category(files, key) ==
    IF Decided(LegacyFile(files, key)) THEN LegacyCategory(LegacyFile(files, key))
    ELSE Computed(LegacyFile(files, key),
                  IF key = "etapas"
                  THEN EtapasCategory(ListOf(files, "validacion_segmentos.json"),
                                      ListOf(files, "validacion_etapas.json"))
                  ELSE StaticCategory(key, ListOf(files, "validacion_segmentos.json")))

\* item.get(...) on an item that is no object: build_summary raises
\* AttributeError when it iterates such a document
Iterates(files, fname) == _read_json(files, fname).kind = "strings"

BuildRaises(files) ==
    \/ /\ Iterates(files, "validacion_segmentos.json")
       /\ \E i \in 1..Len(cat_to_key) :
             /\ cat_to_key[i].key # "etapas"
             /\ ~Decided(LegacyFile(files, cat_to_key[i].key))
    \/ /\ ~Decided(LegacyFile(files, "etapas"))
       /\ \/ Iterates(files, "validacion_etapas.json")
          \/ /\ Iterates(files, "validacion_segmentos.json")
             /\ ~\E i \in 1..Len(ListOf(files, "validacion_etapas.json")) :
                    SegAnyError(ListOf(files, "validacion_etapas.json")[i])

Categories(files) == [i \in 1..Len(cat_to_key) |-> Category(files, cat_to_key[i].key)]

\* one <li> of the details
ListItem(cat, c) ==
    IF c.msgs # << >>
    THEN "<li><strong>" \o cat \o ":</strong> " \o c.status \o " - "
            \o Join(c.msgs, "; ") \o "</li>"
    ELSE "<li><strong>" \o cat \o ":</strong> " \o c.status \o "</li>"

\* the row of a directory, from its categories
RowOf(name, cats) ==
    LET errors == Cardinality({ i \in 1..Len(cats) : cats[i].status = "ERROR" })
        all_skipped == \A i \in 1..Len(cats) : ~cats[i].not_skipped
    IN [promo |-> name,
        status |-> IF all_skipped THEN "SKIPPED" ELSE IF errors > 0 THEN "ERROR" ELSE "OK",
        errors |-> errors,
        details |-> "<ul style=\"margin:0;padding-left:18px\">"
                       \o Join([i \in 1..Len(cats) |-> ListItem(cat_to_key[i].cat, cats[i])], "")
                       \o "</ul>"]

\* a <tr> of the table; the marks of the three statuses are written + * >
HtmlRow(r) ==
    "<tr><td>" \o r.promo \o "</td><td>"
        \o (IF r.status = "OK" THEN "+ OK"
            ELSE IF r.status = "ERROR" THEN "* ERROR" ELSE "> SKIPPED")
        \o "</td><td style=\"text-align:center\">" \o ToString(r.errors) \o "</td><td>"
        \o r.details \o "</td></tr>"

\* build_summary: (html, rows) for the directories in the order dirs
build_summary(fs, dirs) ==
    LET rows == [i \in 1..Len(dirs) |-> RowOf(dirs[i], Categories(fs[dirs[i]]))]
    IN [html |-> "<div style=\"font-family:Arial,Helvetica,sans-serif\">"
                    \o "<h3>Resumen de validaciones BRIEF</h3>"
                    \o "<table border=\"1\" cellspacing=\"0\" cellpadding=\"6\">"
                    \o "<tr><th>Promoci$n</th><th>Estado</th><th>Errores</th>"
                    \o "<th>Detalles</th></tr>"
                    \o Join([i \in 1..Len(rows) |-> HtmlRow(rows[i])], "")
                    \o "</table></div>",
        rows |-> rows]

-----------------------------------------------------------------------------
(* Inputs of a run: the templates, the recorded data, reports of earlier runs *)

MaxSegments == 2    \* segments querySegmentos returns for a campaign

\* a rule file: absent, not JSON, JSON that is not an object, or its rules
AbsentFile == [kind |-> "absent", rules |-> << >>]
InvalidFile == [kind |-> "invalid", rules |-> << >>]
ListFile == [kind |-> "list", rules |-> << >>]
RulesFile(rules) == [kind |-> "rules", rules |-> rules]

\* a prize value float() rejects
BadNum == 0 - 2

\* d[k] = v under a condition
PutIf(d, cond, k, v) == IF cond THEN Put(d, k, v) ELSE d

\* the multiplicador, equivalencias and configuraciones of defaults, as found
BasicFields(defaults) ==
    [k \in (DOMAIN defaults) \cap {"multiplicador", "equivalencias", "configuraciones"}
        |-> defaults[k]]

\* the position (ranking) or the number of winners (draws) of a prize entry
PremioCount(e, ranking) ==
    IF ranking THEN Get(e, "posicion", None) ELSE Get(e, "ganadores", NoNum)

\* the entry has no prize, or no position (ranking) or winners (draws)
PremioMissing(e, ranking) ==
    \/ Get(e, "premio", NoNum) = NoNum
    \/ IF ranking THEN PremioCount(e, ranking) = None ELSE PremioCount(e, ranking) = NoNum

\* the tier of a prize entry of the ranking rules, from its position range
RankingTier(e, range) ==
    [valor_premio |-> e.premio, cantidad_ganadores |-> range[3],
     condicion_minima |-> range[1], condicion_maxima |-> range[2]]

\* the tier of a prize entry of the draw rules
DrawTier(e) ==
    [valor_premio |-> e.premio, cantidad_ganadores |-> e.ganadores,
     condicion_minima |-> 0, condicion_maxima |-> 0]

\* premios_cfg.append(...) for an entry, ahead of the tiers of the entries after it
AddTier(e, ranking, rest) ==
    IF PremioMissing(e, ranking) THEN rest
    ELSE IF e.premio = BadNum THEN [raises |-> TRUE, tiers |-> << >>]
    ELSE [raises |-> rest.raises,
          tiers |-> <<IF ranking THEN RankingTier(e, parse_range_position(e.posicion))
                      ELSE DrawTier(e)>> \o rest.tiers]

\* premios_cfg: the tiers in the legacy format; an entry without prize or
\* without position (ranking) or winners (draws) is left out, a prize that
\* float() rejects raises
RECURSIVE PremiosCfg(_, _)
PremiosCfg(premios, ranking) ==
    IF premios = << >> THEN [raises |-> FALSE, tiers |-> << >>]
    ELSE AddTier(Head(premios), ranking, PremiosCfg(Tail(premios), ranking))

\* stage_map of parse_ranking_top: logic key -> legacy stage name
RankingStageName(stage_key) ==
    CASE stage_key = "planificacion" -> "PLANIFICADO"
      [] stage_key = "preEjecucion" -> "PRE_EJECUCION"
      [] stage_key = "resultadoIview" -> "RESULTADO_IVIEW"
      [] stage_key = "pago" -> "PAGOS_FISICO"
      [] stage_key = "vencido" -> "PAGOS_FISICO_VENCIDOS"
      [] OTHER -> StrUpper(stage_key)

\* the stage names of the draw templates: the keys of the state schema
\* without their 'etapa' prefix, or else the keys of the logic, upper-cased,
\* homologated to the recorded names, and SORTEO
DrawStageNames(rules, schema_field, logic_field) ==
    LET keys == IF schema_field \in DOMAIN rules THEN rules[schema_field]
                ELSE Get(rules, logic_field, << >>)
        cleaned(k) == IF schema_field \in DOMAIN rules /\ Len(k) >= 5
                         /\ SubSeq(StrUpper(k), 1, 5) = "ETAPA"
                      THEN SubSeq(StrUpper(k), 6, Len(k)) ELSE StrUpper(k)
        homol(k) == CASE k = "PLANIFICACION" -> "PLANIFICADO"
                      [] k = "PREEJECUCION" -> "PRE EJECUCION"
                      [] OTHER -> k
    IN { homol(cleaned(keys[i])) : i \in DOMAIN keys } \cup {"SORTEO"}

\* config['durations'] and config['hours'], copied when the defaults give them
WithDurationsHours(c, defaults) ==
    PutIf(PutIf(c, Get(defaults, "durations", << >>) # << >>, "durations",
                Get(defaults, "durations", << >>)),
          Get(defaults, "hours", << >>) # << >>, "hours", Get(defaults, "hours", << >>))

\* the basic fields of the defaults and the premios built from them
WithPremios(defaults, premios) ==
    PutIf(BasicFields(defaults), premios.tiers # << >>, "premios", premios.tiers)

\* the template of campaign 17 from the defaults, the logic and the premios
RankingTemplate(defaults, logic, premios) ==
    IF premios.raises THEN << >>
    ELSE PutIf(WithDurationsHours(WithPremios(defaults, premios), defaults),
               logic # << >>, "etapas",
               [n \in { RankingStageName(logic[i]) : i \in DOMAIN logic } |-> << >>])

\* parse_ranking_top: the template of campaign 17, << >> for None
parse_ranking_top(file) ==
    IF file.kind # "rules" THEN << >>
    ELSE RankingTemplate(Get(file.rules, "defaults", << >>), Get(file.rules, "logic", << >>),
                         PremiosCfg(Get(Get(file.rules, "defaults", << >>), "premios", << >>),
                                    TRUE))

\* the template of campaign 22 from the rules, the defaults and the premios
SaltaTemplate(rules, defaults, premios) ==
    IF premios.raises THEN << >>
    ELSE Put(WithDurationsHours(WithPremios(defaults, premios), defaults), "etapas",
             [n \in DrawStageNames(rules, "schema_state", "logic") |-> << >>])

\* parse_salta_y_gana: the template of campaign 22, << >> for None
parse_salta_y_gana(file) ==
    IF file.kind # "rules" THEN << >>
    ELSE SaltaTemplate(file.rules, Get(file.rules, "defaults", << >>),
                       PremiosCfg(Get(Get(file.rules, "defaults", << >>), "premios", << >>),
                                  FALSE))

\* a mode whose template is handed out as far as it was built when it raises
ModeTemplate_partial(rules, mode_def) ==
    [raises |-> FALSE, cfg |-> BasicFields(Get(mode_def, "defaults", << >>))]

\* the common durations and hours of the draws file and the durations of the mode
WithModeDurations(c, rules, defaults) ==
    PutIf(PutIf(PutIf(c, Get(rules, "durations_et_sorteos", << >>) # << >>,
                      "durations_common", Get(rules, "durations_et_sorteos", << >>)),
                Get(rules, "hours_et_sorteos", << >>) # << >>,
                "hours_common", Get(rules, "hours_et_sorteos", << >>)),
          Get(defaults, "durations", << >>) # << >>,
          "durations_mode", Get(defaults, "durations", << >>))

\* cfg of a mode from the rules, the defaults of the mode and its premios
ModeCfg(rules, defaults, premios) ==
    IF premios.raises THEN [raises |-> TRUE, cfg |-> << >>]
    ELSE [raises |-> FALSE,
          cfg |-> WithModeDurations(
                      Put(WithPremios(defaults, premios), "etapas",
                          [n \in DrawStageNames(rules, "schema_et_sorteos_state",
                                                "logic_sorteos") |-> << >>]),
                      rules, defaults)]

\* the template of one mode of the draws file; raises when the mode is not
\* an object or a prize is not a number
ModeTemplate(rules, mode_def) ==
    IF mode_def.kind # "dict" THEN [raises |-> TRUE, cfg |-> << >>]
    ELSE ModeCfg(rules, Get(mode_def, "defaults", << >>),
                 PremiosCfg(Get(Get(mode_def, "defaults", << >>), "premios", << >>), FALSE))

\* the loop over the modes: the templates built before the first exception
RECURSIVE ModeTemplates(_, _, _)
RECURSIVE AddMode(_, _, _, _)
AddMode(rules, modes, configs, t) ==
    IF t.raises THEN configs
    ELSE ModeTemplates(rules, Tail(modes), Put(configs, Head(modes).name, t.cfg))

ModeTemplates(rules, modes, configs) ==
    IF modes = << >> THEN configs
    ELSE AddMode(rules, modes, configs, ModeTemplate(rules, Head(modes).def))

\* parse_sorteos_rules: mode name -> template
parse_sorteos_rules(file) ==
    IF file.kind # "rules" THEN << >>
    ELSE ModeTemplates(file.rules, Get(file.rules, "modes", << >>), << >>)

\* the campaign type of a mode of the draws file, None for another name
PromoOfMode(mode_name) ==
    CASE StrUpper(mode_name) = "ESTELAR" -> "18"
      [] StrUpper(mode_name) \in {"SUENOS", "SUE]OS"} -> "19"
      [] OTHER -> None

\* the modes of the draws file whose name is one of a campaign type
ModesOf(sorteos_cfgs, p) == { m \in DOMAIN sorteos_cfgs : PromoOfMode(m) = p }

\* config: the templates of the three rule files, by campaign type
AssembleConfig(ranking_cfg, sorteos_cfgs, salta_cfg) ==
    PutIf(PutIf([p \in { q \in {"18", "19"} : ModesOf(sorteos_cfgs, q) # {} } |->
                    sorteos_cfgs[CHOOSE m \in ModesOf(sorteos_cfgs, p) : TRUE]],
                ranking_cfg # << >>, "17", ranking_cfg),
          salta_cfg # << >>, "22", salta_cfg)

\* load_ejecucion_config: campaign type -> template, from the three rule files
load_ejecucion_config(files) ==
    AssembleConfig(parse_ranking_top(files.ranking), parse_sorteos_rules(files.sorteos),
                   parse_salta_y_gana(files.salta))

\* list(cfg.keys()): the campaign types in the order the templates are loaded
\* (the draws file lists the mode of 18 before the mode of 19)
ConfigKeyList(c) == SelectSeq(<<"17", "18", "19", "22">>, LAMBDA p : p \in DOMAIN c)

\* the clock window and the tables of the rule files
Window == [start |-> "08:00", end |-> "09:00"]

\* ranking-top.rules.full.json
RankingRules ==
    [defaults |-> [multiplicador |-> 2,
                   premios |-> << [posicion |-> "1", premio |-> 100] >>,
                   durations |-> [validacion |-> 0, resultado |-> 0],
                   hours |-> [validacion |-> Window, resultado |-> Window]],
     logic |-> <<"acumulacion", "validacion">>]

\* sorteos.saltaYGana.rules.json
SaltaRules ==
    [defaults |-> [equivalencias |-> << [minimo |-> 0, maximo |-> 10, puntaje |-> 1],
                                        [minimo |-> 11, puntaje |-> 2] >>,
                   configuraciones |-> << [k |-> "tope_diario", v |-> 5] >>,
                   durations |-> [sorteo1 |-> 0, validacion |-> 1],
                   hours |-> [sorteo1 |-> Window, validacion |-> Window]],
     schema_state |-> <<"etapaAcumulacion", "etapaSorteo1", "etapaValidacion">>]

\* a mode of sorteos.rules.full.json; its prize is a number, or is not
Mode(name, premio) ==
    [name |-> name,
     def |-> [kind |-> "dict",
              defaults |-> [multiplicador |-> 3,
                            premios |-> << [premio |-> premio, ganadores |-> 2] >>]]]

\* sorteos.rules.full.json, with the modes given
SorteosRules(modes) ==
    [logic_sorteos |-> <<"planificacion", "canjes">>,
     durations_et_sorteos |-> [validacion |-> 1],
     hours_et_sorteos |-> [validacion |-> Window],
     modes |-> modes]

\* the rule files a run may find
RuleFileSets ==
    { [ranking |-> RulesFile(RankingRules),
       sorteos |-> RulesFile(SorteosRules(<<Mode("Estelar", 50), Mode("suenos", 50)>>)),
       salta |-> RulesFile(SaltaRules)],
      [ranking |-> AbsentFile,
       sorteos |-> RulesFile(SorteosRules(<<Mode("estelar", 50), Mode("sue^os", BadNum)>>)),
       salta |-> RulesFile(SaltaRules)],
      [ranking |-> InvalidFile, sorteos |-> AbsentFile, salta |-> RulesFile(SaltaRules)],
      [ranking |-> RulesFile([RankingRules EXCEPT
                                !.defaults.premios = << [posicion |-> "1-3", premio |-> BadNum] >>]),
       sorteos |-> RulesFile(SorteosRules(<<[name |-> "estelar", def |-> [kind |-> "str"]],
                                            Mode("suenos", 50)>>)),
       salta |-> InvalidFile],
      [ranking |-> RulesFile(RankingRules), sorteos |-> ListFile,
       salta |-> RulesFile(SaltaRules)] }

\* the promos argument of validate_all
PromoArgs == { <<"all">>, <<"22", "17">>, <<"99", "17">> }

SegmentKinds == {"ok", "mismatch", "noAnchor", "noStages", "malformed", "etapasFail"}

\* the recorded stage rows of a segment
KindStageRows(promo, kind) ==
    LET first == IF promo = "17" THEN "VALIDACION" ELSE "SORTEO1"
        day == IF promo = "17" THEN BaseDay + 4 ELSE BaseDay + 5
        on_time == <<At(day, 8, 0, 0, 0), At(day, 9, 0, 1, 0)>>
        late == <<At(day, 8, 0, 1, 1), At(day + 1, 9, 0, 0, 0)>>
    IN IF kind = "noStages" THEN << >>
       ELSE IF kind = "noAnchor"
       THEN <<[nombre_etapa |-> "ACUMULACION", fecha_inicio |-> AcumStart,
               fecha_fin |-> NoDt],
              StageRow("SORTEO1", on_time), StageRow("VALIDACION", on_time)>>
       ELSE IF kind = "mismatch"
       THEN <<AnchorRow, StageRow(first, late), StageRow("RECALCULO", late)>>
       ELSE <<AnchorRow, StageRow(first, on_time)>>

\* segment number i of a campaign, with its recorded data
Segment(promo, kind, i) ==
    [row |-> IF kind = "malformed" THEN [nombre_segmento |-> "S" \o ToString(i)]
             ELSE [id_ejecucion_segmento |-> i, nombre_segmento |-> "S" \o ToString(i)],
     multiplicador |->
        Rows(IF kind = "mismatch"
             THEN <<[valor_multiplicador |-> 2], [valor_multiplicador |-> 3]>>
             ELSE <<[valor_multiplicador |-> 2]>>),
     equivalencias |->
        Rows(<<[condicion_minima |-> 11, valor_puntaje |-> 2],
               [condicion_minima |-> 0, condicion_maxima |-> 10, valor_puntaje |-> 1]>>),
     configuraciones |->
        Rows(IF kind = "mismatch" THEN << >>
             ELSE <<[codigo_compuesto |-> "Tope_Diario", valor_entero |-> 5]>>),
     premios |->
        Rows(<<[condicion_minima |-> 1, condicion_maxima |-> 0, valor_premio |-> 100,
                cantidad_ganadores |-> 1]>>),
     etapas |-> IF kind = "etapasFail" THEN QueryFails
                ELSE Rows(KindStageRows(promo, kind))]

\* what querySegmentos may return for the first campaign type
SegmentLists(promo) ==
    { QueryFails }
    \cup { Rows([i \in 1..Len(kinds) |-> Segment(promo, kinds[i], i)]) :
                kinds \in SeqsUpTo(SegmentKinds, MaxSegments) }

\* what it may return for the other one
FewSegmentLists(promo) ==
    { QueryFails,
      Rows(<<Segment(promo, "ok", 1)>>),
      Rows(<<Segment(promo, "noAnchor", 1), Segment(promo, "mismatch", 2)>>) }

\* reports an earlier run may have left under the reports root
OldReports ==
    { << >>,
      [d \in {"22", "21"} |->
          [f \in {"validacion_etapas.json"} |->
              JsonList(<<[segmento |-> 7, nombreSegmento |-> "S7",
                          validaciones |-> << >>]>>)]] }

-----------------------------------------------------------------------------
(* validate_all, a validator call at a time, and build_summary *)

\* the reports root left as it was found
ResetReports_kept(fs) == fs

\* `if validations_root.exists(): shutil.rmtree(...)`, then mkdir: the
\* reports root exists and is empty
ResetReports(fs) == << >>

\* write_json: the directory is created, the document replaces the file
write_json(fs, dir, fname, doc) == Put(fs, dir, Put(Get(fs, dir, << >>), fname, doc))

\* a validator whose exception reaches validate_all
Propagates_uncaught(raised) == raised

\* `except Exception as err: logging.error(...)`: nothing leaves the validator
Propagates(raised) == FALSE

\* the campaign the loop of validate_all is at
Current == run.list_to_validate[run.pos]

\* the loop of validate_all moves on, or validate_all returns
Advance == IF run.pos < Len(run.list_to_validate) THEN "campaign" ELSE "validated"

Called(validator) == [run EXCEPT !.calls = Append(@, <<validator, Current>>)]

Init ==
    /\ promo_id = "" /\ cfg = << >> /\ stage_rows = << >> /\ stage_data = << >>
    /\ idx = 0 /\ walk = WalkStart /\ all_results = << >> /\ remaining = << >>
    /\ promos \in PromoArgs
    /\ rule_files \in RuleFileSets
    /\ config = << >>
    /\ store \in { [p \in {"17", "18", "19", "22"} |->
                        IF p = "17" THEN s17 ELSE IF p = "22" THEN s22
                        ELSE IF p = "18" THEN Rows(<< >>) ELSE QueryFails] :
                        s17 \in SegmentLists("17"), s22 \in FewSegmentLists("22") }
    /\ reports \in OldReports
    /\ run = RunStart
    /\ summary = NoSummary
    /\ fn = "" /\ arg = << >> /\ ret = << >>
    /\ previous = NoRun /\ outbox = << >>
    /\ pc = "start"

\* validate_all up to its loop: the reports root is emptied, the templates are
\* loaded, the campaigns to validate are listed
ValidateAllStart ==
    /\ pc = "start"
    /\ reports' = ResetReports(reports)
    /\ config' = load_ejecucion_config(rule_files)
    /\ run' = [run EXCEPT
                !.list_to_validate = (IF promos # << >> /\ promos[1] # "all" THEN promos
                                      ELSE ConfigKeyList(config')),
                !.pos = 1]
    /\ pc' = (IF run'.list_to_validate = << >> THEN "validated" ELSE "campaign")
    /\ UNCHANGED <<walkVars, callVars, mainVars, promos, rule_files, store, summary>>

\* a campaign without template is skipped
ValidateAllSkip ==
    /\ pc = "campaign"
    /\ Get(config, Current, << >>) = << >>
    /\ run' = [run EXCEPT !.pos = @ + 1]
    /\ pc' = Advance
    /\ UNCHANGED <<walkVars, callVars, mainVars, promos, rule_files, config, store, reports, summary>>

\* validate_segments(promo_id, promo_cfg)
validate_segments ==
    /\ pc = "campaign"
    /\ Get(config, Current, << >>) # << >>
    /\ LET out == SegmentsOutcome(config[Current], store[Current])
       IN /\ reports' = (IF out.written
                         THEN write_json(reports, Current, "validacion_segmentos.json",
                                         JsonList(out.doc))
                         ELSE reports)
          /\ pc' = (IF Propagates(out.raised) THEN "raised" ELSE "etapas")
    /\ run' = Called("validate_segments")
    /\ UNCHANGED <<walkVars, callVars, mainVars, promos, rule_files, config, store, summary>>

\* validate_etapas(promo_id, promo_cfg)
validate_etapas ==
    /\ pc = "etapas"
    /\ LET out == EtapasOutcome(Current, config[Current], store[Current])
       IN /\ reports' = (IF out.written
                         THEN write_json(reports, Current, "validacion_etapas.json",
                                         JsonList(out.doc))
                         ELSE reports)
          /\ pc' = (IF Propagates(out.raised) THEN "raised" ELSE Advance)
    /\ run' = [Called("validate_etapas") EXCEPT !.pos = @ + 1]
    /\ UNCHANGED <<walkVars, callVars, mainVars, promos, rule_files, config, store, summary>>

\* the orders in which iterdir() may list the directories of the reports root
DirOrders(fs) ==
    LET n == Cardinality(DOMAIN fs)
    IN { q \in [1..n -> DOMAIN fs] : \A i, j \in 1..n : i # j => q[i] # q[j] }

\* main's `except Exception as e: logging.error('(correo omitido)')` around
\* send_summary_email: main returns whether or not the summary was sent
Caught_uncaught(raised) == IF raised THEN "raised" ELSE "done"

Caught(raised) == "done"

\* the subject send_summary_email composes from the rows
incorrectas(rows) ==
    [i \in 1..Len(SelectSeq(rows, LAMBDA r : r.status = "ERROR")) |->
        SelectSeq(rows, LAMBDA r : r.status = "ERROR")[i].promo]

Subject_all(rows) ==
    "BRIEF: " \o ToString(Len(rows)) \o " promociones con errores ("
        \o Join([i \in 1..Len(rows) |-> rows[i].promo], ", ") \o ")"

Subject(rows) ==
    IF incorrectas(rows) # << >>
    THEN "BRIEF: " \o ToString(Len(incorrectas(rows))) \o " promociones con errores ("
            \o Join(incorrectas(rows), ", ") \o ")"
    ELSE "BRIEF: todas las promociones OK"

\* build_summary(), as send_summary_email calls it after validate_all; an
\* exception it raises leaves send_summary_email and is caught by main
BuildSummary ==
    /\ pc = "validated"
    /\ IF \E d \in DOMAIN reports : BuildRaises(reports[d])
       THEN summary' = summary /\ pc' = Caught(TRUE)
       ELSE /\ \E dirs \in DirOrders(reports) : summary' = build_summary(reports, dirs)
            /\ pc' = "summarised"
    /\ UNCHANGED <<walkVars, callVars, mainVars, promos, rule_files, config, store, reports, run>>

\* the rest of send_summary_email: the subject, then send_html_email, which
\* raises when the endpoint is not configured or the request fails
SendSummaryEmail ==
    /\ pc = "summarised"
    /\ \E raised \in BOOLEAN :
          /\ outbox' = Append(outbox, [subject |-> Subject(summary.rows),
                                       html |-> summary.html, raised |-> raised])
          /\ pc' = Caught(raised)
    /\ UNCHANGED <<walkVars, runVars, callVars, previous>>

\* the pipeline is run again, on the same rule files and the same recorded
\* data; the reports root holds what the run left, or something else
Rerun ==
    /\ pc = "validated" /\ ~previous.ran
    /\ reports' \in {reports} \cup OldReports
    /\ previous' = [ran |-> TRUE, reports |-> reports, found |-> reports']
    /\ run' = RunStart
    /\ pc' = "start"
    /\ UNCHANGED <<walkVars, callVars, outbox, promos, rule_files, config, store, summary>>

Next == ValidateAllStart \/ ValidateAllSkip \/ validate_segments \/ validate_etapas
            \/ BuildSummary

Spec == Init /\ [][Next]_vars

NextRerun == ValidateAllStart \/ ValidateAllSkip \/ validate_segments \/ validate_etapas
                \/ Rerun

\* main is called, for fewer segment lists than Init has
InitMain ==
    /\ promo_id = "" /\ cfg = << >> /\ stage_rows = << >> /\ stage_data = << >>
    /\ idx = 0 /\ walk = WalkStart /\ all_results = << >> /\ remaining = << >>
    /\ promos \in PromoArgs
    /\ rule_files \in RuleFileSets
    /\ config = << >>
    /\ store \in { [p \in {"17", "18", "19", "22"} |->
                        IF p = "17" THEN s17 ELSE IF p = "22" THEN s22
                        ELSE IF p = "18" THEN Rows(<< >>) ELSE QueryFails] :
                        s17 \in FewSegmentLists("17")
                                \cup { Rows(<<Segment("17", "ok", 1),
                                               Segment("17", "etapasFail", 2)>>) },
                        s22 \in FewSegmentLists("22") }
    /\ reports \in OldReports
    /\ run = RunStart
    /\ summary = NoSummary
    /\ fn = "" /\ arg = << >> /\ ret = << >>
    /\ previous = NoRun /\ outbox = << >>
    /\ pc = "start"

SpecRerun == InitMain /\ [][NextRerun]_vars

\* main: validate_all, then send_summary_email
NextMain == ValidateAllStart \/ ValidateAllSkip \/ validate_segments \/ validate_etapas
                \/ BuildSummary \/ SendSummaryEmail

SpecMain == InitMain /\ [][NextMain]_vars

-----------------------------------------------------------------------------
(* Properties of a run *)

Contains(str, sub) ==
    \E i \in 1..(Len(str) - Len(sub) + 1) : SubSeq(str, i, i + Len(sub) - 1) = sub

\* the campaigns of the list that have a template
WithTemplate == { run.list_to_validate[i] : i \in DOMAIN run.list_to_validate }
                    \cap DOMAIN config

\* both validators have been called for the campaign
DoneWith(p) == \E i \in DOMAIN run.calls : run.calls[i] = <<"validate_etapas", p>>

HasDoc(p, fname) == p \in DOMAIN reports /\ fname \in DOMAIN reports[p]

\* the entries of a report document, none if it was not written
Entries(p, fname) == IF HasDoc(p, fname) THEN reports[p][fname].items ELSE << >>

HasEntry(p, fname, seg) ==
    \E i \in DOMAIN Entries(p, fname) :
        Entries(p, fname)[i].segmento = seg.row.id_ejecucion_segmento

\* the segment's row has its identifier and none of its queries fails
Healthy(seg) ==
    /\ "id_ejecucion_segmento" \in DOMAIN seg.row
    /\ ~seg.multiplicador.raises /\ ~seg.equivalencias.raises
    /\ ~seg.configuraciones.raises /\ ~seg.premios.raises /\ ~seg.etapas.raises

\* C2 (as claimed): a segment that does not fail has its entry in the written
\* reports of its campaign, whatever happens to its sibling segments
C2_Claimed ==
    \A p \in WithTemplate :
        DoneWith(p) =>
            \A i \in DOMAIN store[p].rows :
                Healthy(store[p].rows[i]) =>
                    /\ HasEntry(p, "validacion_segmentos.json", store[p].rows[i])
                    /\ store[p].rows[i].etapas.rows # << >> =>
                            HasEntry(p, "validacion_etapas.json", store[p].rows[i])

\* the calls validate_all makes for a list of campaigns
RECURSIVE ExpectedCalls(_)
ExpectedCalls(list) ==
    IF list = << >> THEN << >>
    ELSE (IF Head(list) \in DOMAIN config
          THEN << <<"validate_segments", Head(list)>>, <<"validate_etapas", Head(list)>> >>
          ELSE << >>) \o ExpectedCalls(Tail(list))

IsPrefix(a, b) == Len(a) <= Len(b) /\ SubSeq(b, 1, Len(a)) = a

\* the campaign's validators both fail: no segment list, or a malformed row
BothFail(p) ==
    \/ store[p].raises
    \/ \E i \in DOMAIN store[p].rows :
            "id_ejecucion_segmento" \notin DOMAIN store[p].rows[i].row

\* C3: no exception of a validator reaches the caller of validate_all, and
\* for every campaign of the list that has a template validate_segments and
\* then validate_etapas are called, in the order of the list, whatever fails
C3_FailuresContained ==
    /\ pc # "raised"
    /\ IsPrefix(run.calls, ExpectedCalls(run.list_to_validate))
    /\ pc \in {"validated", "summarised", "done"} =>
            run.calls = ExpectedCalls(run.list_to_validate)

\* validate_all has returned after a campaign whose validators both failed
\* and a later campaign, whose reports are written
C3_Witness ==
    /\ pc = "validated"
    /\ \E i, j \in DOMAIN run.list_to_validate :
        /\ i < j
        /\ {run.list_to_validate[i], run.list_to_validate[j]} \subseteq DOMAIN config
        /\ BothFail(run.list_to_validate[i])
        /\ run.list_to_validate[i] \notin DOMAIN reports
        /\ HasDoc(run.list_to_validate[j], "validacion_segmentos.json")
        /\ HasDoc(run.list_to_validate[j], "validacion_etapas.json")

SkippedItem(cat) == "<li><strong>" \o cat \o ":</strong> SKIPPED</li>"

\* C4 (as claimed): every campaign that was validated has its row in the
\* summary, the categories whose report was not produced being SKIPPED
C4_Claimed ==
    pc = "summarised" =>
        \A p \in WithTemplate :
            \E i \in DOMAIN summary.rows :
                /\ summary.rows[i].promo = p
                /\ ~HasDoc(p, "validacion_segmentos.json") =>
                      \A cat \in {"Multiplicador", "Equivalencias", "Configuraciones",
                                  "Premios"} :
                          Contains(summary.rows[i].details, SkippedItem(cat))
                /\ (~HasDoc(p, "validacion_segmentos.json")
                        /\ ~HasDoc(p, "validacion_etapas.json")) =>
                      Contains(summary.rows[i].details, SkippedItem("Etapas"))

\* the recorded names that normalize to the anchor's
AnchorSpellings == {"Acumulaci$n", "ACUMULACION"}

\* the segment has stage rows, none of them a complete row of the anchor
NoAnchor(seg) ==
    /\ seg.etapas.rows # << >>
    /\ \A i \in DOMAIN seg.etapas.rows :
          \/ seg.etapas.rows[i].nombre_etapa \notin AnchorSpellings
          \/ seg.etapas.rows[i].fecha_inicio = NoDt
          \/ seg.etapas.rows[i].fecha_fin = NoDt

\* validate_etapas meets no failing segment in the campaign
EtapasRuns(p) ==
    /\ ~store[p].raises
    /\ store[p].rows # << >>
    /\ \A i \in DOMAIN store[p].rows :
          /\ "id_ejecucion_segmento" \in DOMAIN store[p].rows[i].row
          /\ ~store[p].rows[i].etapas.raises

\* C7: a segment without a complete anchor row gets an entry without any
\* verdict (the cross-stage one included), no exception is raised (the
\* report is written), and the other segments get their entries
C7_NoAnchorNoVerdicts ==
    \A p \in WithTemplate :
        (DoneWith(p) /\ EtapasRuns(p)) =>
            /\ HasDoc(p, "validacion_etapas.json")
            /\ \A i \in DOMAIN store[p].rows :
                  store[p].rows[i].etapas.rows # << >> =>
                      \E e \in DOMAIN Entries(p, "validacion_etapas.json") :
                          /\ Entries(p, "validacion_etapas.json")[e].segmento
                                = store[p].rows[i].row.id_ejecucion_segmento
                          /\ NoAnchor(store[p].rows[i]) =>
                                Entries(p, "validacion_etapas.json")[e].validaciones = << >>

\* a segment without anchor, followed by a segment that has verdicts
C7_Witness ==
    \E p \in WithTemplate :
        /\ DoneWith(p) /\ EtapasRuns(p)
        /\ Len(store[p].rows) >= 2
        /\ NoAnchor(store[p].rows[1])
        /\ Len(Entries(p, "validacion_etapas.json")) = 2
        /\ Entries(p, "validacion_etapas.json")[1].validaciones = << >>
        /\ Entries(p, "validacion_etapas.json")[2].validaciones # << >>

CampaignTypes == {"17", "18", "19", "22"}

\* the rule file of a campaign type
FileFor(p) ==
    IF p = "17" THEN rule_files.ranking
    ELSE IF p = "22" THEN rule_files.salta
    ELSE rule_files.sorteos

\* the modes of the draws file, none if it has no rules
ModesOfFile == Get(rule_files.sorteos.rules, "modes", << >>)

\* a prize of the defaults is not a number
BadPrize(defaults) ==
    \E i \in DOMAIN Get(defaults, "premios", << >>) : defaults.premios[i].premio = BadNum

\* the mode cannot be read: it is not an object, or a prize is not a number
Broken(mode) == mode.def.kind # "dict" \/ BadPrize(mode.def.defaults)

\* the defaults the rule file declares for the campaign type
DefaultsFor(p) ==
    IF p \in {"17", "22"} THEN Get(FileFor(p).rules, "defaults", << >>)
    ELSE ModesOfFile[CHOOSE i \in DOMAIN ModesOfFile :
                        PromoOfMode(ModesOfFile[i].name) = p].def.defaults

\* the template holds everything its rule file declares for the campaign type
Whole(p) ==
    LET d == DefaultsFor(p)
        t == config[p]
        rules == FileFor(p).rules
    IN /\ \A k \in (DOMAIN d) \cap {"multiplicador", "equivalencias", "configuraciones"} :
              k \in DOMAIN t /\ t[k] = d[k]
       /\ "premios" \in DOMAIN d =>
              "premios" \in DOMAIN t /\ Len(t.premios) = Len(d.premios)
       /\ p # "17" => ("etapas" \in DOMAIN t /\ "SORTEO" \in DOMAIN t.etapas)
       /\ (p = "17" /\ "logic" \in DOMAIN rules) => "etapas" \in DOMAIN t
       /\ p \in {"17", "22"} =>
              \A k \in (DOMAIN d) \cap {"durations", "hours"} :
                  k \in DOMAIN t /\ t[k] = d[k]
       /\ p \in {"18", "19"} =>
              /\ "durations_et_sorteos" \in DOMAIN rules =>
                    ("durations_common" \in DOMAIN t
                        /\ t.durations_common = rules.durations_et_sorteos)
              /\ "hours_et_sorteos" \in DOMAIN rules =>
                    ("hours_common" \in DOMAIN t /\ t.hours_common = rules.hours_et_sorteos)

\* the campaigns of the list that validate_all has gone past
Passed ==
    { run.list_to_validate[i] :
        i \in { j \in DOMAIN run.list_to_validate :
                    j < run.pos \/ pc \in {"validated", "summarised", "done"} } }

CalledFor(p) == \E i \in DOMAIN run.calls : run.calls[i][2] = p

\* C15: load_ejecucion_config raises nothing and gives a campaign type its
\* whole template or none: none when its rule file is absent or cannot be
\* parsed or its mode cannot be read; validate_all then calls no validator and
\* writes no report for a campaign without template
C15_TemplateOrNone ==
    pc # "start" =>
        /\ pc # "raised"
        /\ \A i \in DOMAIN ModesOfFile :
              (Broken(ModesOfFile[i]) /\ PromoOfMode(ModesOfFile[i].name) # None)
                  => PromoOfMode(ModesOfFile[i].name) \notin DOMAIN config
        /\ \A p \in CampaignTypes :
              /\ FileFor(p).kind # "rules" => p \notin DOMAIN config
              /\ (p \in {"17", "22"} /\ FileFor(p).kind = "rules" /\ BadPrize(DefaultsFor(p)))
                    => p \notin DOMAIN config
              /\ p \in DOMAIN config => Whole(p)
        /\ \A p \in Passed :
              p \notin DOMAIN config => (~CalledFor(p) /\ p \notin DOMAIN reports)

\* the ranking file is absent and the second mode of the draws file cannot be
\* read: 18 has its template, 19 and 17 have none, and validate_all has gone
\* past 17 without calling a validator for it
C15_Witness ==
    /\ pc = "validated"
    /\ rule_files.ranking.kind = "absent"
    /\ \E i \in DOMAIN ModesOfFile : Broken(ModesOfFile[i])
    /\ DOMAIN config = {"18", "22"}
    /\ run.list_to_validate = <<"22", "17">>
    /\ CalledFor("22") /\ ~CalledFor("17")

-----------------------------------------------------------------------------
(* Calls of the helper functions *)

MaxNameLen == 4     \* longest stage name given to _normalize_stage_name
MaxPos == 20        \* largest position of a prize tier

\* a Python value: a str, or a value of another type (None, a number)
StrValue(text) == [type |-> "str", text |-> text]
NonStrValues == { [type |-> "NoneType", text |-> ""], [type |-> "int", text |-> ""] }

\* the characters of the stage names given to the normalization
NameChars == {"a", "B", "$", "}", "_", " ", "\t"}

RECURSIVE StringsUpTo(_, _)
StringsUpTo(chars, n) ==
    IF n = 0 THEN { "" }
    ELSE LET shorter == StringsUpTo(chars, n - 1)
         IN shorter \cup { t \o c : t \in { x \in shorter : Len(x) = n - 1 }, c \in chars }

\* position strings: a position, a range of positions, or something else
\* (with the integer int() reads from it, if it reads one)
Positions ==
    { [form |-> "single", a |-> a, b |-> 0, text |-> ToString(a)] : a \in 0..MaxPos }
    \cup { [form |-> "range", a |-> a, b |-> b, text |-> ToString(a) \o "-" \o ToString(b)] :
                a \in 0..MaxPos, b \in 0..MaxPos }
    \cup { [form |-> "range", a |-> 1, b |-> 3, text |-> " 1 - 3 "],
           [form |-> "integer", a |-> 0 - 5, b |-> 0, text |-> "-5"],
           [form |-> "integer", a |-> 7, b |-> 0, text |-> " +7 "],
           [form |-> "integer", a |-> 1000, b |-> 0, text |-> "1_000"],
           [form |-> "malformed", a |-> 0, b |-> 0, text |-> "abc"],
           [form |-> "malformed", a |-> 0, b |-> 0, text |-> ""],
           [form |-> "malformed", a |-> 0, b |-> 0, text |-> "1-"],
           [form |-> "malformed", a |-> 0, b |-> 0, text |-> "1-2-3"],
           [form |-> "malformed", a |-> 0, b |-> 0, text |-> "a-3"],
           [form |-> "malformed", a |-> 0, b |-> 0, text |-> "1__0"],
           [form |-> "malformed", a |-> 0, b |-> 0, text |-> "1.5"] }

InitCalls ==
    /\ promo_id = "" /\ cfg = << >> /\ stage_rows = << >> /\ stage_data = << >>
    /\ idx = 0 /\ walk = WalkStart /\ all_results = << >> /\ remaining = << >>
    /\ promos = << >> /\ rule_files = << >> /\ config = << >> /\ store = << >>
    /\ reports = << >>
    /\ run = RunStart /\ summary = NoSummary
    /\ \/ /\ fn = "_normalize_stage_name"
          /\ arg \in { StrValue(t) : t \in StringsUpTo(NameChars, MaxNameLen) }
                        \cup NonStrValues
       \/ /\ fn = "parse_range_position"
          /\ arg \in Positions
    /\ ret = << >>
    /\ previous = NoRun /\ outbox = << >>
    /\ pc = "call"

\* _normalize_stage_name(name): '' for an argument that is not a str
NormalizeStageName ==
    /\ pc = "call" /\ fn = "_normalize_stage_name"
    /\ ret' = (IF arg.type # "str" THEN "" ELSE _normalize_stage_name(arg.text))
    /\ pc' = "returned"
    /\ UNCHANGED <<walkVars, runVars, mainVars, fn, arg>>

\* parse_range_position(pos)
ParseRangePosition ==
    /\ pc = "call" /\ fn = "parse_range_position"
    /\ ret' = parse_range_position(arg.text)
    /\ pc' = "returned"
    /\ UNCHANGED <<walkVars, runVars, mainVars, fn, arg>>

NextCalls == NormalizeStageName \/ ParseRangePosition

SpecCalls == InitCalls /\ [][NextCalls]_vars

-----------------------------------------------------------------------------
(* Properties of the helper functions *)

Returned(f) == pc = "returned" /\ fn = f

\* C13: _normalize_stage_name returns for every str a name that it maps to
\* itself, without underscore, without two spaces in a row and without a
\* space at either end, and returns '' for an argument that is not a str
C13_Normalization ==
    /\ pc \in {"call", "returned"}
    /\ Returned("_normalize_stage_name") =>
          IF arg.type = "str"
          THEN /\ _normalize_stage_name(ret) = ret
               /\ Pos("_", ret) = 0
               /\ ~HasDoubleSpace(ret)
               /\ ret # "" => (Ch(ret, 1) # " " /\ Ch(ret, Len(ret)) # " ")
          ELSE ret = ""

\* a name with accents, an underscore next to a space, and a space at its end
C13_Witness ==
    /\ Returned("_normalize_stage_name")
    /\ arg = StrValue("$_ a")
    /\ ret = "O A"

\* C14 (range and single position): parse_range_position gives (p, 0, 1) for
\* a position p, (a, b, b-a+1) for a range a-b, the integer with one winner
\* for any other string int() reads, and (0, 0, 1) for the rest
C14_RangePosition ==
    /\ pc \in {"call", "returned"}
    /\ Returned("parse_range_position") =>
          CASE arg.form = "single" -> ret = <<arg.a, 0, 1>>
            [] arg.form = "range" -> ret = <<arg.a, arg.b, arg.b - arg.a + 1>>
            [] arg.form = "integer" -> ret = <<arg.a, 0, 1>>
            [] OTHER -> ret = <<0, 0, 1>>

\* "11-20" gives (11, 20, 10)
C14_Witness ==
    /\ Returned("parse_range_position")
    /\ arg.text = "11-20"
    /\ ret = <<11, 20, 10>>


-----------------------------------------------------------------------------
(* validate_segments on one segment of campaign 17, a category at a time *)

MaxRows == 2    \* rows recorded for a category of the segment

\* the segment, with nothing recorded for it
BaseSeg ==
    [row |-> [id_ejecucion_segmento |-> 1, nombre_segmento |-> "S1"],
     multiplicador |-> Rows(<< >>), equivalencias |-> Rows(<< >>),
     configuraciones |-> Rows(<< >>), premios |-> Rows(<< >>), etapas |-> Rows(<< >>)]

\* defaults of the ranking rules that declare none of the five categories
BaseDefaults == [durations |-> [validacion |-> 0]]

\* the ranking rules and the recorded data of the segment
SegmentCase(defaults, logic, seg) == [defaults |-> defaults, logic |-> logic, seg |-> seg]

\* the rows a query returns, or its exception
RowLists(rows) == { Rows(l) : l \in SeqsUpTo(rows, MaxRows) } \cup { QueryFails }

\* multiplicador: absent, null or 2; the recorded values 2, 3 or NULL
MultiplicadorCases ==
    { SegmentCase(d, << >>, [BaseSeg EXCEPT !.multiplicador = r]) :
        d \in { BaseDefaults, Put(BaseDefaults, "multiplicador", NoNum),
                Put(BaseDefaults, "multiplicador", 2) },
        r \in RowLists({ [valor_multiplicador |-> v] : v \in {2, 3, NoNum} }) }

\* equivalencias: absent, empty, two bands in either order, one band
EquivalenciasCases ==
    { SegmentCase(d, << >>, [BaseSeg EXCEPT !.equivalencias = r]) :
        d \in { BaseDefaults, Put(BaseDefaults, "equivalencias", << >>),
                Put(BaseDefaults, "equivalencias",
                    << [minimo |-> 0, maximo |-> 10, puntaje |-> 1],
                       [minimo |-> 11, puntaje |-> 2] >>),
                Put(BaseDefaults, "equivalencias",
                    << [min |-> 11, max |-> NoNum, valor_puntaje |-> 2],
                       [condicion_minima |-> 0, max |-> 10, puntaje |-> 1] >>),
                Put(BaseDefaults, "equivalencias",
                    << [minimo |-> 11, puntaje |-> 2] >>) },
        r \in RowLists({ [condicion_minima |-> 0, condicion_maxima |-> 10, valor_puntaje |-> 1],
                         [condicion_minima |-> 11, valor_puntaje |-> 2],
                         [condicion_minima |-> 11, condicion_maxima |-> NoNum,
                          valor_puntaje |-> 2],
                         [condicion_minima |-> 0, condicion_maxima |-> 10,
                          valor_puntaje |-> 2] }) }

\* configuraciones: absent, empty, one key, two keys, a key whose value is null
ConfiguracionesCases ==
    { SegmentCase(d, << >>, [BaseSeg EXCEPT !.configuraciones = r]) :
        d \in { BaseDefaults, Put(BaseDefaults, "configuraciones", << >>),
                Put(BaseDefaults, "configuraciones", << [k |-> "tope_diario", v |-> 5] >>),
                Put(BaseDefaults, "configuraciones",
                    << [k |-> "tope_diario", v |-> 5], [k |-> "Max_X", v |-> 7] >>),
                Put(BaseDefaults, "configuraciones", << [k |-> "max_x", v |-> NoNum] >>) },
        r \in RowLists({ [codigo_compuesto |-> "Tope_Diario", valor_entero |-> 5],
                         [codigo_compuesto |-> "TOPE_DIARIO", valor_entero |-> 6],
                         [codigo_compuesto |-> "max_x", valor_entero |-> 7],
                         [codigo_compuesto |-> "MAX_X", valor_entero |-> NoNum],
                         [codigo_compuesto |-> "otro", valor_entero |-> 1] }) }

\* premios: absent, one tier, an entry without position, or the position 5
\* given once as a range and once alone
PremiosCases ==
    { SegmentCase(d, << >>, [BaseSeg EXCEPT !.premios = r]) :
        d \in { BaseDefaults,
                Put(BaseDefaults, "premios", << [posicion |-> "1-3", premio |-> 100] >>),
                Put(BaseDefaults, "premios", << [premio |-> 100] >>),
                Put(BaseDefaults, "premios", << [posicion |-> "5-5", premio |-> 100],
                                                [posicion |-> "5", premio |-> 100] >>) },
        r \in RowLists({ [condicion_minima |-> 1, condicion_maxima |-> 3,
                          valor_premio |-> 100, cantidad_ganadores |-> 3],
                         [condicion_minima |-> 1, condicion_maxima |-> 3,
                          valor_premio |-> 50, cantidad_ganadores |-> 3],
                         [condicion_minima |-> 5, condicion_maxima |-> 5,
                          valor_premio |-> 100, cantidad_ganadores |-> 1],
                         [condicion_minima |-> 5, condicion_maxima |-> 0,
                          valor_premio |-> 100, cantidad_ganadores |-> 1] }) }

\* etapas: no logic, or the keys of two stages; the recorded names
EtapasCases ==
    { SegmentCase(BaseDefaults, l, [BaseSeg EXCEPT !.etapas = r]) :
        l \in { << >>, <<"acumulacion", "validacion">>, <<"planificacion", "pago">> },
        r \in RowLists({ StageRow(n, <<At(BaseDay + 4, 8, 0, 0, 0), At(BaseDay + 4, 9, 0, 0, 0)>>) :
                            n \in { "Acumulaci$n", "VALIDACION", " validacion", "PLANIFICADO",
                                    "pagos_fisico", "RECALCULO", None } }) }

SegmentCases ==
    MultiplicadorCases \cup EquivalenciasCases \cup ConfiguracionesCases
        \cup PremiosCases \cup EtapasCases

InitSegmentos ==
    /\ promo_id = "" /\ cfg = << >> /\ stage_rows = << >> /\ stage_data = << >>
    /\ idx = 0 /\ walk = WalkStart /\ all_results = << >> /\ remaining = << >>
    /\ promos = <<"17">>
    /\ \E case \in SegmentCases :
          /\ rule_files = [ranking |-> RulesFile([defaults |-> case.defaults,
                                                  logic |-> case.logic]),
                           sorteos |-> AbsentFile, salta |-> AbsentFile]
          /\ store = [p \in {"17", "18", "19", "22"} |->
                        IF p = "17" THEN Rows(<<case.seg>>) ELSE Rows(<< >>)]
    /\ config = << >>
    /\ reports = << >>
    /\ run = RunStart
    /\ summary = NoSummary
    /\ fn = "" /\ arg = << >> /\ ret = << >>
    /\ previous = NoRun /\ outbox = << >>
    /\ pc = "start"

NextSegmentos == ValidateAllStart \/ validate_segments \/ validate_etapas

SpecSegmentos == InitSegmentos /\ [][NextSegmentos]_vars

-----------------------------------------------------------------------------
(* Properties of the categories of a segment *)

\* the template of the campaign, the recorded data of its segment, and the
\* entry validate_segments wrote for the segment
SegmentTemplate == config["17"]
SegmentData == store["17"].rows[1]
SegmentWritten == HasDoc("17", "validacion_segmentos.json")
SegmentEntry == reports["17"]["validacion_segmentos.json"].items[1]

\* the defaults of the ranking rules the template was loaded from
SegmentDefaults == rule_files.ranking.rules.defaults

\* the values recorded as multiplier of the segment
RecordedMultipliers ==
    { SegmentData.multiplicador.rows[i].valor_multiplicador : i \in DOMAIN SegmentData.multiplicador.rows }

\* the rules give a multiplier that is a number
NumericMultiplier == "multiplicador" \in DOMAIN SegmentDefaults /\ SegmentDefaults.multiplicador # NoNum

\* C16: the multiplier verdict of a segment lists the recorded values
\* deduplicated and in increasing order; it is OK exactly when one distinct
\* value is recorded and it equals the expected multiplier, and ERROR
\* otherwise (no value recorded, two distinct values, another value); when
\* the template gives no numeric multiplier it is SKIPPED with a reason.
C16_Multiplicador ==
    SegmentWritten =>
        LET e == SegmentEntry.multiplicador
        IN IF NumericMultiplier
           THEN /\ { e.found[i] : i \in DOMAIN e.found } = RecordedMultipliers
                /\ \A i, j \in DOMAIN e.found : i < j => e.found[i] < e.found[j]
                /\ e.expected = SegmentDefaults.multiplicador
                /\ e.status = (IF RecordedMultipliers = {SegmentDefaults.multiplicador}
                               THEN "OK" ELSE "ERROR")
           ELSE e.status = "SKIPPED" /\ e.reason # ""

\* the same value recorded twice is one distinct value
C16_Witness ==
    /\ SegmentWritten /\ NumericMultiplier
    /\ Len(SegmentData.multiplicador.rows) = 2
    /\ SegmentEntry.multiplicador.found = <<2>>
    /\ SegmentEntry.multiplicador.status = "OK"

\* two distinct values, one of them the expected one
C16_WitnessTwo ==
    /\ SegmentWritten /\ NumericMultiplier
    /\ SegmentEntry.multiplicador.found = <<2, 3>>
    /\ SegmentEntry.multiplicador.status = "ERROR"

\* no value recorded
C16_WitnessNone ==
    /\ SegmentWritten /\ NumericMultiplier
    /\ SegmentEntry.multiplicador.found = << >>
    /\ SegmentEntry.multiplicador.status = "ERROR"

\* the rules give null as multiplier
C16_WitnessSkipped ==
    /\ SegmentWritten /\ "multiplicador" \in DOMAIN SegmentDefaults /\ ~NumericMultiplier
    /\ SegmentData.multiplicador.rows # << >>
    /\ SegmentEntry.multiplicador.status = "SKIPPED"


\* the expected configuration of the rules, and the rows recorded for the segment
ExpectedConfig == SegmentDefaults.configuraciones
ConfigRows == SegmentData.configuraciones.rows

\* the rules declare a flat configuration
DeclaresConfig == "configuraciones" \in DOMAIN SegmentDefaults /\ ExpectedConfig # << >>

\* a row is recorded under the key, whatever the case of its letters
HasConfigRow(k) == \E i \in DOMAIN ConfigRows : StrUpper(ConfigRows[i].codigo_compuesto) = StrUpper(k)

\* the value recorded under the key: the one of the last such row
RecordedConfig(k) ==
    LET at == { i \in DOMAIN ConfigRows : StrUpper(ConfigRows[i].codigo_compuesto) = StrUpper(k) }
    IN ConfigRows[CHOOSE i \in at : \A j \in at : j <= i].valor_entero

\* the key has a recorded value with the string form of the expected value
ConfigAgrees(item) == HasConfigRow(item.k) /\ Str(RecordedConfig(item.k)) = Str(item.v)

\* C17: the flat-configuration verdict of a segment is OK exactly when every
\* expected key has a recorded row whose value has the string form of the
\* expected value; diffs holds exactly the expected keys without a recorded
\* row or with a differing value, and the status is OK exactly when diffs is
\* empty.
C17_Claimed ==
    SegmentWritten /\ DeclaresConfig =>
        LET e == SegmentEntry.configuraciones
        IN /\ e.status = (IF \A i \in DOMAIN ExpectedConfig : ConfigAgrees(ExpectedConfig[i])
                          THEN "OK" ELSE "ERROR")
           /\ { e.diffs[i].k : i \in DOMAIN e.diffs }
                 = { StrUpper(ExpectedConfig[i].k) :
                        i \in { j \in DOMAIN ExpectedConfig : ~ConfigAgrees(ExpectedConfig[j]) } }
           /\ e.status = "OK" <=> e.diffs = << >>

\* the same, for rules none of whose expected values is null
C17_ExceptNull ==
    DeclaresConfig /\ (\A i \in DOMAIN ExpectedConfig : ExpectedConfig[i].v # NoNum)
        => C17_Claimed

\* a key whose expected value is null and for which nothing is recorded
C17_NullExpected ==
    /\ SegmentWritten /\ DeclaresConfig
    /\ \E i \in DOMAIN ExpectedConfig :
          ExpectedConfig[i].v = NoNum /\ ~HasConfigRow(ExpectedConfig[i].k)
    /\ SegmentEntry.configuraciones.status = "OK"


\* the rules declare equivalence bands
DeclaresBands == "equivalencias" \in DOMAIN SegmentDefaults /\ SegmentDefaults.equivalencias # << >>

\* the bands of the rules and the bands recorded, normalised, in their order
ExpectedBands == normalize_config(SegmentDefaults.equivalencias)
RecordedBands == normalize_rows_seg(SegmentData.equivalencias.rows)

\* how many times a band occurs in a list
Occurrences(bands, b) == Cardinality({ i \in DOMAIN bands : bands[i] = b })

\* two lists hold the same bands the same number of times
SameBands(a, b) ==
    \A x \in { a[i] : i \in DOMAIN a } \cup { b[i] : i \in DOMAIN b } :
        Occurrences(a, x) = Occurrences(b, x)

\* a list of bands is in the order of (min, max or +infinity, score)
BandsInOrder(bands) ==
    \A i, j \in DOMAIN bands :
        i < j => ~LexLess(EquivalenciaKey(bands[j]), EquivalenciaKey(bands[i]))

\* C18: the equivalence-bands verdict of a segment holds the expected and the
\* recorded bands, each normalised and sorted by (min, max or +infinity,
\* score); it is OK exactly when the two sorted lists are identical and ERROR
\* otherwise, which is exactly when the rules and the rows hold the same
\* bands, in whatever order each gives them.
C18_Equivalencias ==
    SegmentWritten /\ DeclaresBands =>
        LET e == SegmentEntry.equivalencias
        IN /\ SameBands(e.expected, ExpectedBands) /\ BandsInOrder(e.expected)
           /\ SameBands(e.found, RecordedBands) /\ BandsInOrder(e.found)
           /\ e.status = (IF e.expected = e.found THEN "OK" ELSE "ERROR")
           /\ e.status = "OK" <=> SameBands(ExpectedBands, RecordedBands)

\* the rows give the two bands of the rules in the other order
C18_Witness ==
    /\ SegmentWritten /\ DeclaresBands
    /\ Len(RecordedBands) = 2 /\ RecordedBands[1] # RecordedBands[2]
    /\ RecordedBands # ExpectedBands
    /\ SegmentEntry.equivalencias.status = "OK"

\* a band of the rows has another score
C18_WitnessError ==
    /\ SegmentWritten /\ DeclaresBands
    /\ Len(RecordedBands) = Len(ExpectedBands)
    /\ SegmentEntry.equivalencias.status = "ERROR"


\* the stage keys of the rules' logic
SegmentLogic == rule_files.ranking.rules.logic

\* the expected and the recorded stage names of the segment, normalised
ExpectedStageNames ==
    { _normalize_stage_name(RankingStageName(SegmentLogic[i])) : i \in DOMAIN SegmentLogic }
RecordedStageNames ==
    { _normalize_stage_name(StrName(SegmentData.etapas.rows[i].nombre_etapa)) :
        i \in DOMAIN SegmentData.etapas.rows }

\* the members of a list, which holds none of them twice
Members(list) == { list[i] : i \in DOMAIN list }
NoRepeat(list) == \A i, j \in DOMAIN list : i # j => list[i] # list[j]

\* C19: the stage-name verdict of a segment compares the normalised expected
\* names with the normalised recorded names: missing is exactly the expected
\* names that are not recorded, extra exactly the recorded names that are
\* not expected, and the verdict is OK when both are empty, else ERROR.
C19_StageNames ==
    SegmentWritten /\ SegmentLogic # << >> =>
        LET e == SegmentEntry.etapas
        IN /\ Members(e.expected) = ExpectedStageNames /\ Members(e.found) = RecordedStageNames
           /\ Members(e.missing) = ExpectedStageNames \ RecordedStageNames /\ NoRepeat(e.missing)
           /\ Members(e.extra) = RecordedStageNames \ ExpectedStageNames /\ NoRepeat(e.extra)
           /\ e.status = (IF e.missing = << >> /\ e.extra = << >> THEN "OK" ELSE "ERROR")

\* the recorded names match the expected ones once they are normalised
C19_Witness ==
    /\ SegmentWritten /\ SegmentLogic # << >>
    /\ \E i \in DOMAIN SegmentData.etapas.rows :
          SegmentData.etapas.rows[i].nombre_etapa \notin ExpectedStageNames
    /\ SegmentEntry.etapas.status = "OK"

\* an expected name is not recorded and a recorded name is not expected
C19_WitnessBoth ==
    /\ SegmentWritten /\ SegmentLogic # << >>
    /\ SegmentEntry.etapas.missing # << >> /\ SegmentEntry.etapas.extra # << >>
    /\ SegmentEntry.etapas.status = "ERROR"


\* the five categories of validate_segments, by their key in the template
SegmentCategories == {"multiplicador", "equivalencias", "configuraciones", "premios", "etapas"}

\* the template does not declare the category: it has no such key, or has
\* null as multiplier, or an empty list or dict
Undeclared(category) ==
    \/ category \notin DOMAIN SegmentTemplate
    \/ category = "multiplicador" /\ SegmentTemplate[category] = NoNum
    \/ category # "multiplicador" /\ SegmentTemplate[category] = << >>

\* what is recorded for the segment under a category
Recorded(category) == SegmentData[category]

\* C20: for each of the five categories that the template does not declare,
\* the verdict validate_segments gives the segment is SKIPPED with a reason
\* that is not empty, whatever is recorded for the segment.
C20_UndeclaredSkipped ==
    SegmentWritten =>
        \A category \in SegmentCategories :
            Undeclared(category) =>
                /\ SegmentEntry[category].status = "SKIPPED"
                /\ "reason" \in DOMAIN SegmentEntry[category]
                /\ SegmentEntry[category].reason # ""

\* rows are recorded for a category the template does not declare
C20_Witness ==
    /\ SegmentWritten
    /\ \E category \in SegmentCategories :
          /\ Undeclared(category)
          /\ Recorded(category).rows # << >>
          /\ SegmentEntry[category].status = "SKIPPED"

\* the query of a category the template does not declare would fail
C20_WitnessFails ==
    /\ SegmentWritten
    /\ \E category \in SegmentCategories \ {"etapas"} :
          Undeclared(category) /\ Recorded(category).raises


\* the template declares prize tiers
DeclaresTiers == "premios" \in DOMAIN SegmentTemplate /\ SegmentTemplate.premios # << >>

\* the sort key (prize, min, winners) of a normalised tier
TierKey(t) == <<t.valor_premio, t.condicion_minima, t.cantidad_ganadores>>

\* no two tiers of the list have the same sort key and another maximum
KeysTellTiers(tiers) ==
    \A i, j \in DOMAIN tiers : TierKey(tiers[i]) = TierKey(tiers[j]) => tiers[i] = tiers[j]

\* C28: the prize-tiers verdict of a segment is OK exactly when the expected
\* and the recorded tiers, normalised, are equal as multisets, whatever the
\* order in which the rows are returned, also when two tiers differ in
\* their maximum only.
C28_Claimed ==
    SegmentWritten /\ DeclaresTiers =>
        LET e == SegmentEntry.premios
        IN e.status = (IF SameBands(e.expected, e.found) THEN "OK" ELSE "ERROR")

\* the same, for tiers that their sort key tells apart
C28_KeysTellTiers ==
    (SegmentWritten /\ DeclaresTiers
        /\ KeysTellTiers(SegmentEntry.premios.expected \o SegmentEntry.premios.found))
        => C28_Claimed

\* the recorded tiers are the expected ones, returned in another order
C28_OrderMatters ==
    /\ SegmentWritten /\ DeclaresTiers
    /\ SameBands(SegmentEntry.premios.expected, SegmentEntry.premios.found)
    /\ SegmentEntry.premios.status = "ERROR"

-----------------------------------------------------------------------------
(* send_summary_email over a reports root holding one directory *)

MaxItems == 2    \* entries of a per-segment document

\* templates the entries of the documents were validated against: those of
\* campaigns 17 and 22, one that declares nothing, and one whose tiers and
\* bands differ from the recorded ones
EntryTemplates ==
    [ranking |-> parse_ranking_top(RulesFile(RankingRules)),
     salta |-> parse_salta_y_gana(RulesFile(SaltaRules)),
     undeclared |-> parse_ranking_top(RulesFile([defaults |-> BaseDefaults])),
     other |-> parse_ranking_top(RulesFile(
                  [defaults |-> [premios |-> << [posicion |-> "1-3", premio |-> 100] >>,
                                 equivalencias |-> << [minimo |-> 11, puntaje |-> 2] >>,
                                 durations |-> [validacion |-> 0]]]))]

\* what an entry of validacion_segmentos.json was made from
EntryKinds ==
    { <<"ranking", "ok">>, <<"ranking", "mismatch">>, <<"salta", "mismatch">>,
      <<"undeclared", "ok">>, <<"other", "ok">> }

\* the entries validate_segments and validate_etapas write for segment i
SegmentsItem(kind, i) == SegResult(EntryTemplates[kind[1]], Segment("17", kind[2], i))
EtapasItem(kind, i) == EtapasEntry("17", EntryTemplates.ranking, Segment("17", kind, i))

\* a per-segment document: missing, a dict, a list of entries, or a list of
\* items that are no objects
SegmentsDocs ==
    { NoJson, JsonDict(<< >>), JsonStrings }
    \cup { JsonList([i \in 1..Len(kinds) |-> SegmentsItem(kinds[i], i)]) :
                kinds \in SeqsUpTo(EntryKinds, MaxItems) }

EtapasDocs ==
    { NoJson, JsonStrings }
    \cup { JsonList([i \in 1..Len(kinds) |-> EtapasItem(kinds[i], i)]) :
                kinds \in SeqsUpTo({"ok", "mismatch", "noAnchor"}, MaxItems) }

\* a legacy file of a category: missing, a dict without status, or a status
\* (null, or a string) with or without details
LegacyDocs ==
    { NoJson, JsonDict([details |-> " revisar "]) }
    \cup { JsonDict([status |-> st]) : st \in {"OK", "ERROR", "SKIPPED", None} }
    \cup { JsonDict([status |-> st, details |-> " revisar "]) :
                st \in {"OK", "ERROR", "SKIPPED", None} }

\* the files of a directory; a missing document is no file
Files(segs, etapas, multiplicador, etapas_legacy) ==
    LET all == [validacion_segmentos |-> segs, validacion_etapas_list |-> etapas,
                validacion_multiplicador |-> multiplicador,
                validacion_etapas |-> etapas_legacy]
        name == [validacion_segmentos |-> "validacion_segmentos.json",
                 validacion_etapas_list |-> "validacion_etapas.json",
                 validacion_multiplicador |-> "validacion_multiplicador.json",
                 validacion_etapas |-> "validacion_etapas.json"]
        kept == { k \in DOMAIN all :
                    /\ all[k] # NoJson
                    /\ k = "validacion_etapas_list" => etapas_legacy = NoJson }
    IN [f \in { name[k] : k \in kept } |->
            IF f = "validacion_segmentos.json" THEN segs
            ELSE IF f = "validacion_multiplicador.json" THEN multiplicador
            ELSE IF etapas_legacy # NoJson THEN etapas_legacy ELSE etapas]

\* the per-segment documents next to which a legacy file is tried
FewSegmentsDocs ==
    { NoJson, JsonStrings, JsonList(<<SegmentsItem(<<"ranking", "ok">>, 1)>>),
      JsonList(<<SegmentsItem(<<"ranking", "mismatch">>, 1)>>) }

\* the reports root send_summary_email may find
SummaryReports ==
    { [d \in {"17"} |-> Files(segs, etapas, NoJson, NoJson)] :
            segs \in SegmentsDocs, etapas \in EtapasDocs }
    \cup { [d \in {"17"} |-> Files(segs, etapas, m, e)] :
            segs \in FewSegmentsDocs,
            etapas \in { NoJson, JsonList(<<EtapasItem("mismatch", 1)>>) },
            m \in LegacyDocs, e \in LegacyDocs }

InitSummary ==
    /\ promo_id = "" /\ cfg = << >> /\ stage_rows = << >> /\ stage_data = << >>
    /\ idx = 0 /\ walk = WalkStart /\ all_results = << >> /\ remaining = << >>
    /\ promos = << >> /\ rule_files = << >> /\ config = << >> /\ store = << >>
    /\ reports \in SummaryReports
    /\ run = RunStart /\ summary = NoSummary
    /\ fn = "" /\ arg = << >> /\ ret = << >>
    /\ previous = NoRun /\ outbox = << >>
    /\ pc = "validated"

NextSummary == BuildSummary \/ SendSummaryEmail

SpecSummary == InitSummary /\ [][NextSummary]_vars

-----------------------------------------------------------------------------
(* Properties of the summary *)

\* the directory, its per-segment documents and its summary row
TheFiles == reports["17"]
TheSegments == ListOf(TheFiles, "validacion_segmentos.json")
TheEtapas == ListOf(TheFiles, "validacion_etapas.json")
Built == pc \in {"summarised", "done"} /\ summary # NoSummary
TheRow == summary.rows[1]

\* the <li> of a category in the details of the row: its status, and
\* whether messages follow it
ShowsStatus(cat, status) ==
    \/ Contains(TheRow.details, "<li><strong>" \o cat \o ":</strong> " \o status \o "</li>")
    \/ Contains(TheRow.details, "<li><strong>" \o cat \o ":</strong> " \o status \o " - ")
ShowsMessages(cat, status) ==
    Contains(TheRow.details, "<li><strong>" \o cat \o ":</strong> " \o status \o " - ")

\* some entry of the segments document reports the status for the category
Reports(key, status) == \E i \in DOMAIN TheSegments : TheSegments[i][key].status = status

\* the categories other than Etapas
StaticCats == { i \in 1..Len(cat_to_key) : cat_to_key[i].key # "etapas" }

\* C21: a category other than Etapas that has no legacy file is ERROR if an
\* entry of the segments document reports ERROR for it, else OK if an entry
\* reports OK, else SKIPPED, also when there is no segments document.
C21_DerivedStatus ==
    Built =>
        \A i \in StaticCats :
            ~IsLegacy(LegacyFile(TheFiles, cat_to_key[i].key)) =>
                ShowsStatus(cat_to_key[i].cat,
                            IF Reports(cat_to_key[i].key, "ERROR") THEN "ERROR"
                            ELSE IF Reports(cat_to_key[i].key, "OK") THEN "OK"
                            ELSE "SKIPPED")

\* two entries, one reporting OK and one ERROR for Multiplicador: ERROR
C21_Witness ==
    /\ Built /\ ~IsLegacy(LegacyFile(TheFiles, "multiplicador"))
    /\ Reports("multiplicador", "OK") /\ Reports("multiplicador", "ERROR")
    /\ ShowsStatus("Multiplicador", "ERROR")

\* entries that all report SKIPPED for a category, and no entry at all
C21_WitnessSkipped ==
    /\ Built /\ ~IsLegacy(LegacyFile(TheFiles, "premios"))
    /\ TheSegments # << >> /\ ~Reports("premios", "OK") /\ ~Reports("premios", "ERROR")
    /\ ShowsStatus("Premios", "SKIPPED")
C21_WitnessNoDocument ==
    /\ Built /\ "validacion_segmentos.json" \notin DOMAIN TheFiles
    /\ ~IsLegacy(LegacyFile(TheFiles, "multiplicador"))
    /\ ShowsStatus("Multiplicador", "SKIPPED")

\* some timing verdict of the timing document is ERROR
TimingError ==
    \E i \in DOMAIN TheEtapas : \E k \in DOMAIN TheEtapas[i].validaciones :
        TheEtapas[i].validaciones[k].estado = "ERROR"

\* the details show the stage-names message of some entry reporting ERROR
ShowsStageNames ==
    \E i \in DOMAIN TheSegments :
        /\ TheSegments[i].etapas.status = "ERROR"
        /\ Contains(TheRow.details, StageNamesMessage(TheSegments[i]))

\* C22: without a legacy file the category Etapas is ERROR exactly when a
\* timing verdict is ERROR, or none is and an entry of the segments document
\* reports ERROR for its stage names; the stage-name verdicts are consulted
\* only when no timing verdict is ERROR, so their messages are shown only then.
C22_StagesCategory ==
    (Built /\ ~IsLegacy(LegacyFile(TheFiles, "etapas"))) =>
        /\ ShowsStatus("Etapas", "ERROR")
              <=> (TimingError \/ (~TimingError /\ Reports("etapas", "ERROR")))
        /\ TimingError => ~ShowsStageNames
        /\ (~TimingError /\ Reports("etapas", "ERROR")) => ShowsStageNames

\* a timing verdict is ERROR and an entry reports ERROR for its stage names:
\* ERROR, and only the timing messages are shown
C22_Witness ==
    /\ Built /\ ~IsLegacy(LegacyFile(TheFiles, "etapas"))
    /\ TimingError /\ Reports("etapas", "ERROR")
    /\ ShowsStatus("Etapas", "ERROR") /\ ~ShowsStageNames

\* timing verdicts none of which is ERROR, and an entry reporting ERROR
C22_WitnessFallback ==
    /\ Built /\ ~IsLegacy(LegacyFile(TheFiles, "etapas"))
    /\ \E i \in DOMAIN TheEtapas : TheEtapas[i].validaciones # << >>
    /\ ~TimingError /\ Reports("etapas", "ERROR")
    /\ ShowsStatus("Etapas", "ERROR") /\ ShowsStageNames

\* no timing verdict is ERROR and no entry reports ERROR: not ERROR
C22_WitnessFine ==
    /\ Built /\ ~IsLegacy(LegacyFile(TheFiles, "etapas"))
    /\ TheEtapas # << >> /\ TheSegments # << >>
    /\ ~TimingError /\ ~Reports("etapas", "ERROR")
    /\ ShowsStatus("Etapas", "OK")

\* the categories the details show with the status
Showing(status) == { i \in 1..Len(cat_to_key) : ShowsStatus(cat_to_key[i].cat, status) }

\* the overall status and the error count that the shown categories call for
OverallOf(skipped, errors) ==
    IF skipped = Len(cat_to_key) THEN "SKIPPED" ELSE IF errors > 0 THEN "ERROR" ELSE "OK"

\* C23: the overall status of a row is SKIPPED exactly when its five
\* categories are SKIPPED, else ERROR exactly when one of them is ERROR,
\* else OK, and its error count is the number of categories that are ERROR.
C23_Claimed ==
    Built =>
        /\ TheRow.status = OverallOf(Cardinality(Showing("SKIPPED")),
                                     Cardinality(Showing("ERROR")))
        /\ TheRow.errors = Cardinality(Showing("ERROR"))

\* a legacy file whose status is null
NullStatus(key) ==
    IsLegacy(LegacyFile(TheFiles, key)) /\ LegacyFile(TheFiles, key).data.status = None

\* the same, for directories none of whose legacy files has a null status
C23_ExceptNullStatus ==
    (\A i \in 1..Len(cat_to_key) : ~NullStatus(cat_to_key[i].key)) => C23_Claimed

\* the five categories are SKIPPED, one of them after a legacy file whose
\* status is null, and the row is OK
C23_AllSkippedOk ==
    /\ Built /\ \E i \in 1..Len(cat_to_key) : NullStatus(cat_to_key[i].key)
    /\ Cardinality(Showing("SKIPPED")) = Len(cat_to_key)
    /\ TheRow.status = "OK" /\ TheRow.errors = 0

\* C24: a category that is OK or SKIPPED carries no message, whether its
\* status is that of a legacy file or derived from the per-segment verdicts.
C24_Claimed ==
    Built =>
        \A i \in 1..Len(cat_to_key) :
            /\ ~ShowsMessages(cat_to_key[i].cat, "OK")
            /\ ~ShowsMessages(cat_to_key[i].cat, "SKIPPED")

\* the same, for the categories that have no legacy file
C24_Derived ==
    Built =>
        \A i \in 1..Len(cat_to_key) :
            ~IsLegacy(LegacyFile(TheFiles, cat_to_key[i].key)) =>
                /\ ~ShowsMessages(cat_to_key[i].cat, "OK")
                /\ ~ShowsMessages(cat_to_key[i].cat, "SKIPPED")

\* a legacy file whose status is OK and that has details: the category is
\* OK and carries the details as its message
C24_LegacyDetails ==
    /\ Built
    /\ IsLegacy(LegacyFile(TheFiles, "multiplicador"))
    /\ LegacyFile(TheFiles, "multiplicador").data.status = "OK"
    /\ ShowsMessages("Multiplicador", "OK")

-----------------------------------------------------------------------------
(* Properties of send_summary_email and of main *)

\* the names of the rows whose overall status is ERROR, in the order of the rows
RECURSIVE ErrorNames(_)
ErrorNames(rows) ==
    IF rows = << >> THEN << >>
    ELSE (IF Head(rows).status = "ERROR" THEN <<Head(rows).promo>> ELSE << >>)
            \o ErrorNames(Tail(rows))

\* C27: the subject handed to send_html_email gives the number and the names
\* of exactly the campaigns whose row is ERROR when there is one, and says
\* that all promotions are OK otherwise.
C27_Subject ==
    \A i \in DOMAIN outbox :
        /\ outbox[i].html = summary.html
        /\ outbox[i].subject =
             (IF \E k \in DOMAIN summary.rows : summary.rows[k].status = "ERROR"
              THEN "BRIEF: " \o ToString(Len(ErrorNames(summary.rows)))
                      \o " promociones con errores ("
                      \o Join(ErrorNames(summary.rows), ", ") \o ")"
              ELSE "BRIEF: todas las promociones OK")

\* a row that is ERROR and one that is not: the subject names the first only
C27_Witness ==
    /\ outbox # << >>
    /\ \E i, k \in DOMAIN summary.rows :
          /\ summary.rows[i].status = "ERROR" /\ summary.rows[k].status # "ERROR"
          /\ outbox[1].subject = "BRIEF: 1 promociones con errores ("
                                    \o summary.rows[i].promo \o ")"

\* two rows that are ERROR, and none
C27_WitnessTwo ==
    /\ outbox # << >>
    /\ Len(ErrorNames(summary.rows)) = 2
    /\ Contains(outbox[1].subject, "BRIEF: 2 promociones con errores (")
C27_WitnessAllOk ==
    /\ outbox # << >> /\ summary.rows # << >>
    /\ ErrorNames(summary.rows) = << >>
    /\ outbox[1].subject = "BRIEF: todas las promociones OK"

\* the two report documents
ReportNames == {"validacion_segmentos.json", "validacion_etapas.json"}

WasCalled(validator, p) == \E i \in DOMAIN run.calls : run.calls[i] = <<validator, p>>

\* the document is the one a validator that went through every segment of
\* the campaign writes
SegmentsComplete(p) ==
    /\ WasCalled("validate_segments", p)
    /\ ~store[p].raises /\ store[p].rows # << >>
    /\ \A i \in DOMAIN store[p].rows : ~SegmentRaises(config[p], store[p].rows[i])
    /\ reports[p]["validacion_segmentos.json"]
            = JsonList([i \in DOMAIN store[p].rows |-> SegResult(config[p], store[p].rows[i])])
EtapasComplete(p) ==
    /\ WasCalled("validate_etapas", p)
    /\ ~store[p].raises /\ store[p].rows # << >>
    /\ \A i \in DOMAIN store[p].rows : ~EtapasRaises(store[p].rows[i])
    /\ reports[p]["validacion_etapas.json"]
            = JsonList(EtapasResults(p, config[p], store[p].rows))

\* C29: once validate_all has emptied the reports root, every directory of
\* it is that of a campaign validated in this run and holds only documents
\* written in this run by a validator that went through the whole campaign;
\* nothing an earlier run left is there.
C29_OnlyThisRun ==
    pc # "start" =>
        \A p \in DOMAIN reports :
            /\ p \in WithTemplate
            /\ DOMAIN reports[p] \subseteq ReportNames
            /\ HasDoc(p, "validacion_segmentos.json") => SegmentsComplete(p)
            /\ HasDoc(p, "validacion_etapas.json") => EtapasComplete(p)

\* the reports root held a report of a campaign that is validated in this
\* run and fails: validate_all has returned and the report is gone
C29_Witness ==
    /\ pc = "validated" /\ previous.ran
    /\ \E p \in DOMAIN previous.found :
          /\ p \in WithTemplate /\ BothFail(p) /\ p \notin DOMAIN reports
    /\ reports # << >>

\* it held a report of a campaign that is not validated in this run
C29_WitnessNotValidated ==
    /\ pc = "validated" /\ previous.ran
    /\ \E p \in DOMAIN previous.found :
          /\ \A i \in DOMAIN run.list_to_validate : run.list_to_validate[i] # p
          /\ p \notin DOMAIN reports
    /\ reports # << >>

\* C25: run again on the same rule files and with the store returning the
\* same rows, validate_all leaves the reports the earlier run left, whatever
\* the reports root holds when it is called.
C25_SameReports ==
    (pc = "validated" /\ previous.ran) => reports = previous.reports

\* the second run found reports other than those it leaves, and leaves those
\* of the first run
C25_Witness ==
    /\ pc = "validated" /\ previous.ran
    /\ reports # << >> /\ previous.found # << >> /\ previous.found # reports
    /\ reports = previous.reports

\* the second run found the reports of the first
C25_WitnessLeft ==
    /\ pc = "validated" /\ previous.ran
    /\ reports # << >> /\ previous.found = previous.reports

\* validate_segments of a campaign is called, and has returned, right before
\* validate_etapas of the same campaign, and nothing else is called
SegmentsThenEtapas ==
    \A i \in DOMAIN run.calls :
        /\ run.calls[i][1] = "validate_etapas" =>
                i > 1 /\ run.calls[i - 1] = <<"validate_segments", run.calls[i][2]>>
        /\ (run.calls[i][1] = "validate_segments" /\ i < Len(run.calls)) =>
                run.calls[i + 1] = <<"validate_etapas", run.calls[i][2]>>

\* C30: main builds the summary and hands it to send_html_email once, after
\* validate_all has returned from both validators of every campaign to
\* validate; validate_segments of a campaign returns before validate_etapas
\* of it is called; an exception while the summary is built or sent is
\* caught by main, which returns.
C30_MainWorkflow ==
    /\ pc # "raised"
    /\ SegmentsThenEtapas
    /\ Len(outbox) <= 1
    /\ (summary # NoSummary \/ outbox # << >>) =>
            /\ pc \in {"summarised", "done"}
            /\ run.calls = ExpectedCalls(run.list_to_validate)
    /\ pc = "done" =>
            \/ Len(outbox) = 1 /\ outbox[1].html = summary.html /\ summary # NoSummary
            \/ outbox = << >> /\ \E d \in DOMAIN reports : BuildRaises(reports[d])

\* send_html_email raised after both validators ran for two campaigns, and
\* main has returned
C30_Witness ==
    /\ pc = "done" /\ Len(outbox) = 1 /\ outbox[1].raised
    /\ Len(run.calls) = 4

\* the summary was sent
C30_WitnessSent ==
    /\ pc = "done" /\ Len(outbox) = 1 /\ ~outbox[1].raised
    /\ run.calls # << >>

-----------------------------------------------------------------------------
(* validate_etapas over two segments of a campaign, one after the other *)

\* the recorded stage rows of a segment
LoopRows(promo) ==
    { KindStageRows(promo, kind) : kind \in {"ok", "mismatch", "noAnchor", "noStages"} }

InitSegmentLoop ==
    /\ promo_id \in PromoIds
    /\ cfg \in { t \in Templates(promo_id) :
                    \E f \in {"durations", "durations_common"} :
                        f \in DOMAIN t /\ \A k \in DOMAIN t[f] : t[f][k] = MaxDur }
    /\ stage_rows \in LoopRows(promo_id)
    /\ remaining \in { <<rows>> : rows \in LoopRows(promo_id) }
    /\ stage_data = << >> /\ idx = 0 /\ walk = WalkStart /\ all_results = << >>
    /\ promos = << >> /\ rule_files = << >> /\ config = << >> /\ store = << >>
    /\ reports = << >>
    /\ run = RunStart /\ summary = NoSummary
    /\ fn = "" /\ arg = << >> /\ ret = << >>
    /\ previous = NoRun /\ outbox = << >>
    /\ pc = "query"

NextSegmentLoop == EtQuery \/ EtAnchor \/ EtStage \/ EtFinish \/ EtNextSegment

SpecSegmentLoop == InitSegmentLoop /\ [][NextSegmentLoop]_vars

\* the entry of the segment the loop is at
LastEntry == all_results[Len(all_results)]

\* C26: the timing verdicts of a segment are those that its own recorded
\* stages and the template give, whatever the stages of the segment walked
\* before it are, and the recorded stage data is, at every point of the
\* walk, what was read for the segment.
C26_OwnStagesOnly ==
    /\ (pc \in {"anchor", "loop", "done"} /\ stage_rows # << >>) =>
            stage_data = BuildStageData(stage_rows, << >>)
    /\ (pc = "done" /\ stage_rows # << >>) =>
            LastEntry.validaciones = SegmentValidations(promo_id, cfg, stage_rows)

\* the second segment has its verdicts, which are not those of the first
C26_Witness ==
    /\ pc = "done" /\ remaining = << >> /\ Len(all_results) = 2
    /\ all_results[1].validaciones # << >>
    /\ all_results[2].validaciones # << >>
    /\ all_results[1].validaciones # all_results[2].validaciones

\* the second segment has no anchor, the first has verdicts
C26_WitnessNoAnchor ==
    /\ pc = "done" /\ remaining = << >> /\ Len(all_results) = 2
    /\ all_results[1].validaciones # << >>
    /\ all_results[2].validaciones = << >>

=============================================================================
